---- MODULE Spec2Model ----
(***************************************************************************)
(* Model of orion-ai's capability registry (src/func/registry.rs), its     *)
(* process-wide manager (src/func/global.rs) and the progressive           *)
(* diagnostic engine (src/exec_unit/diagnosis.rs).                         *)
(*                                                                         *)
(*   Spec          - tasks calling the GlobalFunctionRegistry concurrently *)
(*   SpecRegistry  - one FunctionRegistry value driven by its own methods  *)
(*   SpecSnapshots - tasks taking copies of the global registry and        *)
(*                   working on them while others change it                *)
(*   SpecToolSets  - tasks registering tool sets next to single functions  *)
(*                   and executors                                         *)
(*   SpecDiagnosis - one run of ProgressiveDiagnosis over a registry       *)
(*   SpecCommands  - one call of a built-in executor and the commands it   *)
(*                   launches (SpecCommandsFair: with fair scheduling)     *)
(*   SpecParsers   - a ParserRegistry being filled and asked to parse      *)
(*   SpecToolCalls - the tool calls of one model response being executed   *)
(***************************************************************************)
EXTENDS Integers, Sequences, FiniteSets, TLC

VARIABLES
    global_registry, \* OnceLock<Arc<RwLock<Option<FunctionRegistry>>>>
    pc,              \* per task: position inside the call it is executing
    op,              \* per task: the call it is executing / executed last
    ret,             \* per task: "none" while running, else the AiResult
    pre,             \* per task: global_registry when the call was made
    solo,            \* per task: no other task stepped during the call
    snapshot,        \* per task: registry returned by get_registry()
    calls,           \* number of calls made so far on the manager
    local,           \* SpecRegistry: a stand-alone FunctionRegistry
    localRet,        \* SpecRegistry: result of the last method applied to it
    localCall,       \* SpecRegistry: the last method applied to it
    diag,            \* SpecDiagnosis: state of one diagnostic run
    cmd,             \* SpecCommands: one call of a built-in executor
    parsers,         \* SpecParsers: ParserRegistry::parsers, by name
    parsed,          \* SpecParsers: the last ParserRegistry::parse and its result
    tool_run         \* SpecToolCalls: the tool calls of one model response

vars == <<global_registry, pc, op, ret, pre, solo, snapshot, calls,
          local, localRet, localCall, diag, cmd, parsers, parsed, tool_run>>

\* the state of the specifications about executors and their callers
unitVars == <<cmd, parsers, parsed, tool_run>>

globalVars == <<global_registry, pc, op, ret, pre, solo, snapshot, calls>>

(***************************************************************************)
(* Bounds                                                                  *)
(***************************************************************************)
MaxCalls == 3

MaxParsers == 3

MaxToolCalls == 2

Tasks == {"t1", "t2"}

(***************************************************************************)
(* Maps (HashMap<String, _>)                                               *)
(***************************************************************************)
EmptyMap == [n \in {} |-> n]

Insert(m, k, v) == [n \in (DOMAIN m) \cup {k} |-> IF n = k THEN v ELSE m[n]]

Remove(m, k) == [n \in (DOMAIN m) \ {k} |-> m[n]]

(***************************************************************************)
(* Executors and their supported_functions()                               *)
(***************************************************************************)
GitNames == {"git-status", "git-diff", "git-add", "git-commit", "git-push"}
FsNames == {"fs-ls", "fs-pwd", "fs-cat", "fs-find"}
SysNames == {"sys-uname", "sys-ps", "sys-df"}
NetNames == {"net-ping"}
DiagnosisNames == {"sys-uptime", "sys-meminfo"}
MonitorNames == {"sys-proc-top", "sys-proc-stats"}
AnalysisNames == {"sys-iostat", "sys-netstat", "sys-diagnose"}

BuiltinNames == GitNames \cup FsNames \cup SysNames \cup NetNames

\* executors defined by callers (the tests' TestSetExecutor and the like)
supported_functions(e) ==
    CASE e = "GitFunctionExecutor" -> GitNames
      [] e = "FileSystemExecutor" -> FsNames
      [] e = "SystemInfoExecutor" -> SysNames
      [] e = "NetworkExecutor" -> NetNames
      [] e = "DiagnosisExecutor" -> DiagnosisNames
      [] e = "MonitorExecutor" -> MonitorNames
      [] e = "AnalysisExecutor" -> AnalysisNames
      [] e = "MetricsExecutor" -> {"sys-uptime", "sys-meminfo"}
      [] e = "ExecA" -> {"tool-a"}
      [] e = "ExecAB" -> {"tool-a", "tool-b"}
      [] e = "ExecCD" -> {"tool-c", "tool-d"}
      [] OTHER -> {}

FunctionDefinition(n, d) == [name |-> n, description |-> d]

\* create_git_functions() and its siblings: one schema per supported name
create_functions(e) == {FunctionDefinition(n, "builtin") : n \in supported_functions(e)}

(***************************************************************************)
(* FunctionRegistry (src/func/registry.rs)                                 *)
(***************************************************************************)
FunctionRegistry_new == [functions |-> EmptyMap, executors |-> EmptyMap]

Registry_register_function(reg, f) ==
    [reg EXCEPT !.functions = Insert(@, f.name, f)]

Registry_register_executor(reg, name, e) ==
    [reg EXCEPT !.executors = Insert(@, name, e)]

Registry_contains_function(reg, name) == name \in DOMAIN reg.functions

Registry_supports_function(reg, name) == name \in DOMAIN reg.executors

\* unregister_function() that forgets the executor map
unregister_schema_only(reg, name) ==
    [functions |-> Remove(reg.functions, name),
     executors |-> reg.executors]

Registry_unregister_function(reg, name) ==
    [functions |-> Remove(reg.functions, name),
     executors |-> Remove(reg.executors, name)]

\* clone_registry() without its second loop
clone_functions_only(reg) ==
    [functions |-> [n \in DOMAIN reg.functions |-> reg.functions[n]],
     executors |-> EmptyMap]

Registry_clone_registry(reg) ==
    [functions |-> [n \in DOMAIN reg.functions |-> reg.functions[n]],
     executors |-> [n \in DOMAIN reg.executors |-> reg.executors[n]]]

\* register_git_tools and its siblings: every schema, then the executor
\* under each name it supports
register_tools(reg, e) ==
    [functions |-> [n \in (DOMAIN reg.functions) \cup supported_functions(e) |->
                      IF n \in supported_functions(e)
                      THEN FunctionDefinition(n, "builtin") ELSE reg.functions[n]],
     executors |-> [n \in (DOMAIN reg.executors) \cup supported_functions(e) |->
                      IF n \in supported_functions(e) THEN e ELSE reg.executors[n]]]

\* create_and_register_tools without its last family
create_without_network_tools ==
    register_tools(register_tools(register_tools(
        FunctionRegistry_new, "GitFunctionExecutor"), "FileSystemExecutor"),
        "SystemInfoExecutor")

create_and_register_tools ==
    register_tools(register_tools(register_tools(register_tools(
        FunctionRegistry_new, "GitFunctionExecutor"), "FileSystemExecutor"),
        "SystemInfoExecutor"), "NetworkExecutor")

(***************************************************************************)
(* SpecRegistry: a FunctionRegistry owned by one caller                    *)
(***************************************************************************)
LocalNames == {"tool-a", "tool-b", "git-status"}

LocalExecutors == {"ExecA", "ExecAB"}

\* a method call on the registry: the FunctionCall's name and arguments, the
\* executor handed in, and what the executor's command does when it is run
LocalCall(m, n, e, a, c) ==
    [method |-> m, name |-> n, executor |-> e, arguments |-> a, command |-> c]

InitLocal == /\ local = FunctionRegistry_new
             /\ localRet = "none"
             /\ localCall = LocalCall("new", "", "", "", "")

local_register_function(f) ==
    /\ local' = Registry_register_function(local, f)
    /\ localRet' = "Ok"
    /\ localCall' = LocalCall("register_function", f.name, "", "", "")

local_register_executor(name, e) ==
    /\ local' = Registry_register_executor(local, name, e)
    /\ localRet' = "Ok"
    /\ localCall' = LocalCall("register_executor", name, e, "", "")

local_unregister_function(name) ==
    /\ local' = Registry_unregister_function(local, name)
    /\ localRet' = IF Registry_contains_function(local, name)
                      \/ Registry_supports_function(local, name)
                   THEN "true" ELSE "false"
    /\ localCall' = LocalCall("unregister_function", name, "", "", "")

\* the arguments of a call and the fate of the command an executor runs
Arguments == {"valid", "not_an_object", "host_missing", "host_invalid"}

Commands == {"exit_zero", "exit_nonzero", "not_run"}

\* NetworkExecutor::execute; the executors callers define in the tests
\* answer every call with a FunctionResult without error
Executor_execute(e, name, arguments, command) ==
    IF e = "NetworkExecutor"
    THEN IF name # "net-ping" THEN "Err:UnknownFunction"
         ELSE IF arguments = "not_an_object" THEN "Err:ParseArguments"
         ELSE IF arguments = "host_missing" THEN "Err:HostRequired"
         ELSE IF arguments = "host_invalid" THEN "Err:InvalidHost"
         ELSE IF command = "exit_zero" THEN "FunctionResult"
         ELSE "FunctionResult:error"
    ELSE "FunctionResult"

Registry_execute_function(reg, name, arguments, command) ==
    IF name \notin DOMAIN reg.executors THEN "Err:ExecutorNotFound"
    ELSE Executor_execute(reg.executors[name], name, arguments, command)

local_execute_function(name, arguments, command) ==
    /\ local' = local
    /\ localRet' = Registry_execute_function(local, name, arguments, command)
    /\ localCall' = LocalCall("execute_function", name, "", arguments, command)

(***************************************************************************)
(* ProgressiveDiagnosis (src/exec_unit/diagnosis.rs)                       *)
(***************************************************************************)
DiagnosticConfig(b, p, i, n, c, s, t) ==
    [check_basic_info |-> b, check_processes |-> p, check_io_performance |-> i,
     check_network |-> n, sampling_count |-> c, sampling_interval |-> s,
     timeout_seconds |-> t]

\* u32 and u64 values, as sequences of 16-bit limbs, most significant first
U32(n) == <<0, n>>

U64(n) == <<0, 0, 0, n>>

U32_MAX == <<65535, 65535>>

U64_MAX == <<65535, 65535, 65535, 65535>>

\* a < b for two values of the same width
Less(a, b) ==
    \E i \in 1..Len(a) : /\ a[i] < b[i]
                         /\ \A j \in 1..(i - 1) : a[j] = b[j]

\* Ord::clamp
clamp(v, min, max) == IF Less(v, min) THEN min ELSE IF Less(max, v) THEN max ELSE v

\* v * 2 in the width of v
Double(v) ==
    [i \in 1..Len(v) |->
        (v[i] * 2 + (IF i < Len(v) /\ v[i + 1] * 2 >= 65536 THEN 1 ELSE 0)) % 65536]

DiagnosticConfig_basic ==
    DiagnosticConfig(TRUE, FALSE, FALSE, FALSE, U32(1), U32(1), U64(5))

DiagnosticConfig_standard ==
    DiagnosticConfig(TRUE, TRUE, FALSE, FALSE, U32(2), U32(1), U64(15))

DiagnosticConfig_advanced ==
    DiagnosticConfig(TRUE, TRUE, TRUE, TRUE, U32(3), U32(1), U64(30))

\* DiagnosticConfig::is_valid
DiagnosticConfig_is_valid(cfg) ==
    /\ ~Less(cfg.sampling_count, U32(1)) /\ ~Less(U32(10), cfg.sampling_count)
    /\ ~Less(cfg.sampling_interval, U32(1)) /\ ~Less(U32(5), cfg.sampling_interval)
    /\ ~Less(cfg.timeout_seconds, U64(5)) /\ ~Less(U64(60), cfg.timeout_seconds)

SamplingConfig(c, i, t) == [count |-> c, interval |-> i, timeout |-> t]

\* the field values taken over as they are, as for_diagnostic_depth does
SamplingConfig_unclamped(count, interval, timeout) ==
    SamplingConfig(count, interval, timeout)

SamplingConfig_new(count, interval, timeout) ==
    SamplingConfig(clamp(count, U32(1), U32(10)),
                   clamp(interval, U32(1), U32(5)),
                   clamp(timeout, U64(5), U64(60)))

\* DiagnosticDepth: the presets, and Custom carrying its configuration
Depth(k, c) == [kind |-> k, config |-> c]

to_config(depth) ==
    CASE depth.kind = "Basic" -> DiagnosticConfig_basic
      [] depth.kind = "Standard" -> DiagnosticConfig_standard
      [] depth.kind = "Advanced" -> DiagnosticConfig_advanced
      [] OTHER -> depth.config

should_analyze_processes(depth) ==
    CASE depth.kind = "Basic" -> FALSE
      [] depth.kind = "Standard" -> TRUE
      [] depth.kind = "Advanced" -> TRUE
      [] OTHER -> depth.config.check_processes

\* should_analyze_io answering for Standard as for Advanced
should_analyze_io_from_standard(depth) ==
    CASE depth.kind = "Basic" -> FALSE
      [] depth.kind = "Standard" -> TRUE
      [] depth.kind = "Advanced" -> TRUE
      [] OTHER -> depth.config.check_io_performance

should_analyze_io(depth) ==
    CASE depth.kind = "Basic" -> FALSE
      [] depth.kind = "Standard" -> FALSE
      [] depth.kind = "Advanced" -> TRUE
      [] OTHER -> depth.config.check_io_performance

should_analyze_network(depth) ==
    CASE depth.kind = "Basic" -> FALSE
      [] depth.kind = "Standard" -> FALSE
      [] depth.kind = "Advanced" -> TRUE
      [] OTHER -> depth.config.check_network

\* the values callers write into the public fields of a DiagnosticConfig
SamplingCounts == {U32(0), U32(1), U32(10), U32(11), U32_MAX}

SamplingIntervals == {U32(0), U32(1), U32(5), U32(6), U32_MAX}

TimeoutSeconds == {U64(0), U64(4), U64(5), U64(60), U64(61), U64_MAX}

CustomConfigs ==
    {DiagnosticConfig(b, p, i, n, c, s, t) :
        b \in BOOLEAN, p \in BOOLEAN, i \in BOOLEAN, n \in BOOLEAN,
        c \in SamplingCounts, s \in SamplingIntervals, t \in TimeoutSeconds}

Depths ==
    {Depth(k, DiagnosticConfig_basic) : k \in {"Basic", "Standard", "Advanced"}}
    \cup {Depth("Custom", c) : c \in CustomConfigs}

\* the registries a run is given: the bootstrapped built-ins, and the
\* built-ins together with the diagnosis, monitor and analysis executors
DiagnosisRegistry ==
    register_tools(create_and_register_tools, "DiagnosisExecutor")

FullDiagnosisRegistry ==
    register_tools(register_tools(DiagnosisRegistry, "MonitorExecutor"),
                   "AnalysisExecutor")

\* a caller's own executor bound to the two basic capabilities
MetricsRegistry == register_tools(FullDiagnosisRegistry, "MetricsExecutor")

DiagRegistries == {create_and_register_tools, DiagnosisRegistry, FullDiagnosisRegistry,
                   MetricsRegistry}

Phases == <<"basic", "process", "io", "network">>

\* the capability calls a phase issues, in order
PhaseCalls(p) ==
    CASE p = "basic" -> <<"sys-uptime", "sys-meminfo">>
      [] p = "process" -> <<"sys-proc-top", "sys-proc-top", "sys-proc-stats">>
      [] p = "io" -> <<"sys-iostat">>
      [] OTHER -> <<"sys-netstat">>

\* the names a phase appends to executed_functions once all its calls passed
PhaseLog(p) ==
    CASE p = "basic" -> <<"sys-uptime", "sys-meminfo">>
      [] p = "process" -> <<"sys-proc-top", "sys-proc-stats">>
      [] p = "io" -> <<"sys-iostat">>
      [] OTHER -> <<"sys-netstat">>

PhaseEnabled(cfg, p) ==
    CASE p = "basic" -> cfg.check_basic_info
      [] p = "process" -> cfg.check_processes
      [] p = "io" -> cfg.check_io_performance
      [] OTHER -> cfg.check_network

PhaseIndex(p) == CHOOSE i \in 1..4 : Phases[i] = p

\* the `if self.config.check_...` ladder: the first enabled phase after i
NextPhase(cfg, i) ==
    IF \E j \in (i + 1)..4 : PhaseEnabled(cfg, Phases[j])
    THEN Phases[CHOOSE j \in (i + 1)..4 :
                   /\ PhaseEnabled(cfg, Phases[j])
                   /\ \A k \in (i + 1)..(j - 1) : ~PhaseEnabled(cfg, Phases[k])]
    ELSE "summary"

\* what FunctionRegistry::execute_function under the timeout can come to
Outcomes(reg, name) ==
    IF ~Registry_supports_function(reg, name) THEN {"not_found"}
    ELSE {"ok", "error_result", "executor_err", "timeout"}

\* execute_function_with_timeout: Ok only for a result without error
execute_function_with_timeout(outcome) ==
    CASE outcome = "ok" -> "Ok"
      [] outcome = "timeout" -> "Timeout"
      [] OTHER -> "FunctionExecutionFailed"

\* usage_percent values (f64), in tenths of a percent
NoMetrics == [cpu |-> 0, memory |-> 0]

NoReport == [mode |-> "none", executed_functions |-> <<>>, successful_functions |-> 0,
             failed_functions |-> 0, status |-> "",
             usage_percent |-> NoMetrics,
             issues_identified |-> <<>>, recommendations |-> <<>>]

\* DiagnosticReport::new(DiagnosticDepth::Custom(config))
DiagnosticReport_new == [mode |-> "Custom", executed_functions |-> <<>>,
                         successful_functions |-> 0, failed_functions |-> 0,
                         status |-> "running",
                         usage_percent |-> NoMetrics,
                         issues_identified |-> <<>>, recommendations |-> <<>>]

DiagIdle == [pc |-> "idle", idx |-> 0, depth |-> Depth("Basic", DiagnosticConfig_basic),
             config |-> DiagnosticConfig_basic,
             sampling_config |-> SamplingConfig(U32(1), U32(1), U64(5)),
             timeouts |-> {},
             function_registry |-> FunctionRegistry_new,
             report |-> NoReport, result |-> "none",
             failures |-> 0, ran |-> {}, succeeded |-> <<>>,
             observed |-> NoMetrics]

InitDiag == diag = DiagIdle

\* ProgressiveDiagnosis::from_depth / new, then lines 103-104
execute_progressive_diagnosis(depth, reg) ==
    /\ diag.pc = "idle"
    /\ diag' = [diag EXCEPT !.pc = NextPhase(to_config(depth), 0),
                            !.idx = 1,
                            !.depth = depth,
                            !.config = to_config(depth),
                            !.sampling_config =
                                SamplingConfig_new(to_config(depth).sampling_count,
                                                   to_config(depth).sampling_interval,
                                                   to_config(depth).timeout_seconds),
                            !.timeouts = {},
                            !.function_registry = reg,
                            !.report = DiagnosticReport_new]

\* the timeout a phase passes to execute_function_with_timeout
PhaseTimeout(p) ==
    IF p = "io" THEN Double(diag.sampling_config.timeout)
    ELSE diag.config.timeout_seconds

\* one capability call of phase p; an error leaves the run through `?`; the
\* phase's update of the report stores `metrics`
PhaseStep(p, outcome, metrics, observed) ==
    /\ diag.pc = p
    /\ outcome \in Outcomes(diag.function_registry, PhaseCalls(p)[diag.idx])
    /\ LET r == execute_function_with_timeout(outcome)
           used == diag.timeouts \cup {PhaseTimeout(p)}
       IN  IF r # "Ok"
           THEN diag' = [diag EXCEPT !.pc = "done", !.result = r,
                                     !.failures = @ + 1,
                                     !.ran = @ \cup {p},
                                     !.timeouts = used]
           ELSE IF diag.idx < Len(PhaseCalls(p))
           THEN diag' = [diag EXCEPT !.idx = @ + 1, !.timeouts = used,
                                     !.succeeded = @ \o <<PhaseCalls(p)[diag.idx]>>]
           ELSE diag' = [diag EXCEPT
                    !.pc = NextPhase(diag.config, PhaseIndex(p)),
                    !.succeeded = @ \o <<PhaseCalls(p)[diag.idx]>>,
                    !.idx = 1,
                    !.ran = @ \cup {p},
                    !.timeouts = used,
                    !.report.usage_percent = metrics,
                    !.observed = observed,
                    !.report.executed_functions = @ \o PhaseLog(p),
                    !.report.successful_functions = @ + Len(PhaseLog(p))]

\* the usage the output of sys-uptime and sys-meminfo shows, in tenths of a
\* percent
CpuUsages == {0, 500, 800, 801, 850}

MemoryUsages == {0, 800, 850, 851}

\* FunctionResult::result of sys-uptime / sys-meminfo: the keys of the JSON
\* object and the usage the command's output shows
JsonResult(keys, usage_percent) == [keys |-> keys, usage_percent |-> usage_percent]

\* DiagnosisExecutor::execute's json!({..}) results (Linux); a caller's
\* executor answers with the objects update_system_info looks for
Executor_result(e, name, usage_percent) ==
    IF e = "DiagnosisExecutor"
    THEN IF name = "sys-uptime"
         THEN JsonResult({"output", "detailed", "success", "platform", "command"},
                         usage_percent)
         ELSE JsonResult({"memory_info", "platform", "command"}, usage_percent)
    ELSE IF name = "sys-uptime"
         THEN JsonResult({"uptime_output", "load_data", "cpu_data"}, usage_percent)
         ELSE JsonResult({"memory_data"}, usage_percent)

update_system_info(usage_percent, uptime_result, meminfo_result) ==
    [cpu |-> IF "cpu_data" \in uptime_result.keys
             THEN uptime_result.usage_percent ELSE usage_percent.cpu,
     memory |-> IF "memory_data" \in meminfo_result.keys
                THEN meminfo_result.usage_percent ELSE usage_percent.memory]

\* the executor a registry routes a name to ("" when there is none)
BoundExecutor(reg, name) ==
    IF name \in DOMAIN reg.executors THEN reg.executors[name] ELSE ""

execute_basic_diagnosis(outcome, cpu, memory) ==
    PhaseStep("basic", outcome,
              IF diag.idx = Len(PhaseCalls("basic"))
              THEN update_system_info(
                       diag.report.usage_percent,
                       Executor_result(BoundExecutor(diag.function_registry, "sys-uptime"),
                                       "sys-uptime", cpu),
                       Executor_result(BoundExecutor(diag.function_registry, "sys-meminfo"),
                                       "sys-meminfo", memory))
              ELSE diag.report.usage_percent,
              IF diag.idx = Len(PhaseCalls("basic"))
              THEN [cpu |-> cpu, memory |-> memory]
              ELSE diag.observed)

execute_process_analysis(outcome) ==
    PhaseStep("process", outcome, diag.report.usage_percent, diag.observed)

execute_io_analysis(outcome) ==
    PhaseStep("io", outcome, diag.report.usage_percent, diag.observed)

execute_network_analysis(outcome) ==
    PhaseStep("network", outcome, diag.report.usage_percent, diag.observed)

SystemIssue(type, severity) == [issue_type |-> type, severity |-> severity]

\* analyze_and_recommend with the CPU rule firing at the threshold itself
analyze_and_recommend_at_threshold(report) ==
    LET cpu == IF report.usage_percent.cpu >= 800
               THEN [report EXCEPT
                        !.issues_identified =
                            Append(@, SystemIssue("HighCpuUsage", "Warning")),
                        !.recommendations = Append(@, "optimize-cpu")]
               ELSE report
    IN  IF cpu.usage_percent.memory > 850
        THEN [cpu EXCEPT
                 !.issues_identified =
                     Append(@, SystemIssue("HighMemoryUsage", "Warning")),
                 !.recommendations = Append(@, "optimize-memory")]
        ELSE cpu

analyze_and_recommend(report) ==
    LET cpu == IF report.usage_percent.cpu > 800
               THEN [report EXCEPT
                        !.issues_identified =
                            Append(@, SystemIssue("HighCpuUsage", "Warning")),
                        !.recommendations = Append(@, "optimize-cpu")]
               ELSE report
    IN  IF cpu.usage_percent.memory > 850
        THEN [cpu EXCEPT
                 !.issues_identified =
                     Append(@, SystemIssue("HighMemoryUsage", "Warning")),
                 !.recommendations = Append(@, "optimize-memory")]
        ELSE cpu

\* update_execution_summary, analyze_and_recommend, then Ok(report)
update_execution_summary ==
    /\ diag.pc = "summary"
    /\ diag' = [diag EXCEPT
            !.pc = "done",
            !.result = "report",
            !.report = analyze_and_recommend(
                [diag.report EXCEPT
                    !.status = "completed",
                    !.failed_functions =
                        Len(diag.report.executed_functions)
                            - diag.report.successful_functions])]

CallOutcomes == {"ok", "error_result", "executor_err", "timeout", "not_found"}

NextDiagnosis ==
    /\ UNCHANGED <<global_registry, pc, op, ret, pre, solo, snapshot, calls,
                   local, localRet, localCall>>
    /\ UNCHANGED unitVars
    /\ \/ /\ diag.pc = "idle"
          /\ \E d \in Depths, r \in DiagRegistries : execute_progressive_diagnosis(d, r)
       \/ \E o \in CallOutcomes, cpu \in CpuUsages, memory \in MemoryUsages :
              execute_basic_diagnosis(o, cpu, memory)
       \/ \E o \in CallOutcomes : execute_process_analysis(o)
       \/ \E o \in CallOutcomes : execute_io_analysis(o)
       \/ \E o \in CallOutcomes : execute_network_analysis(o)
       \/ update_execution_summary

(***************************************************************************)
(* Built-in executors and the commands they launch                         *)
(* (src/func/git.rs, src/func/system/*.rs)                                 *)
(***************************************************************************)
\* Option<&str>; strings that are inspected are sequences of characters
None == [some |-> FALSE, value |-> <<>>]

Some(v) == [some |-> TRUE, value |-> v]

\* Option of a string that is only compared (mode, message)
Absent == [some |-> FALSE, value |-> ""]

unwrap_or(o, d) == IF o.some THEN o.value ELSE d

Repeat(c, n) == [i \in 1..n |-> c]

\* str::contains(pat)
contains(s, pat) ==
    \E i \in 1..(Len(s) - Len(pat) + 1) : SubSeq(s, i, i + Len(pat) - 1) = pat

PathOk(p) == [ok |-> TRUE, value |-> p]

PathErr == [ok |-> FALSE, value |-> <<>>]

validate_and_normalize_path(path) ==
    IF path = <<>> THEN PathOk(<<".">>)
    ELSE IF contains(path, <<".", ".">>) \/ contains(path, <<"~">>) THEN PathErr
    ELSE IF \/ contains(path, <<";">>) \/ contains(path, <<"|">>)
            \/ contains(path, <<"&">>) \/ contains(path, <<"$">>) THEN PathErr
    ELSE PathOk(path)

valid_chars ==
    <<"a", "b", "c", "d", "e", "f", "g", "h", "i", "j", "k", "l", "m",
      "n", "o", "p", "q", "r", "s", "t", "u", "v", "w", "x", "y", "z",
      "A", "B", "C", "D", "E", "F", "G", "H", "I", "J", "K", "L", "M",
      "N", "O", "P", "Q", "R", "S", "T", "U", "V", "W", "X", "Y", "Z",
      "0", "1", "2", "3", "4", "5", "6", "7", "8", "9", ".", "-">>

is_valid_host_charset_only(host) ==
    \A i \in 1..Len(host) : contains(valid_chars, <<host[i]>>)

is_valid_host(host) ==
    IF host = <<>> \/ Len(host) > 253 THEN FALSE
    ELSE IF \/ contains(host, <<";">>) \/ contains(host, <<"|">>)
            \/ contains(host, <<"&">>) \/ contains(host, <<">">>)
            \/ contains(host, <<"<">>) THEN FALSE
    ELSE \A i \in 1..Len(host) : contains(valid_chars, <<host[i]>>)

Platforms == {"Linux", "MacOS", "Windows", "Unknown"}

CommandTypes == {"Uptime", "MemInfo", "NetStat", "Iostat", "ProcessList"}

\* (command, default arguments)
get_platform_specific_command(command_type, platform) ==
    CASE command_type = "Uptime" ->
            (CASE platform = "MacOS" -> <<"uptime", <<>>>>
              [] platform = "Linux" -> <<"uptime", <<>>>>
              [] platform = "Windows" -> <<"wmic", <<"os", "get", "lastbootuptime">>>>
              [] platform = "Unknown" -> <<"uptime", <<>>>>)
      [] command_type = "MemInfo" ->
            (CASE platform = "MacOS" -> <<"vm_stat", <<>>>>
              [] platform = "Linux" -> <<"free", <<"-h">>>>
              [] platform = "Windows" ->
                    <<"wmic", <<"os", "get", "totalvisiblememorysize,freephysicalmemory">>>>
              [] platform = "Unknown" -> <<"vm_stat", <<>>>>)
      [] command_type = "NetStat" ->
            (CASE platform = "MacOS" -> <<"netstat", <<"-an">>>>
              [] platform = "Linux" -> <<"netstat", <<"-tuln">>>>
              [] platform = "Windows" -> <<"netstat", <<"-an">>>>
              [] platform = "Unknown" -> <<"netstat", <<"-an">>>>)
      [] command_type = "Iostat" ->
            (CASE platform = "MacOS" -> <<"iostat", <<>>>>
              [] platform = "Linux" -> <<"iostat", <<>>>>
              [] platform = "Windows" ->
                    <<"typeperf", <<"\\PhysicalDisk(*)\\Disk Read Bytes/sec",
                                    "\\PhysicalDisk(*)\\Disk Write Bytes/sec">>>>
              [] platform = "Unknown" -> <<"iostat", <<>>>>)
      [] command_type = "ProcessList" ->
            (CASE platform = "MacOS" -> <<"ps", <<>>>>
              [] platform = "Linux" -> <<"ps", <<"aux">>>>
              [] platform = "Windows" -> <<"tasklist", <<>>>>
              [] platform = "Unknown" -> <<"ps", <<"aux">>>>)

\* a child process: the program, its fixed arguments, the caller-supplied
\* strings handed to it (as arguments or as its working directory) and the
\* timer it runs under
Launch(command, args, operands, timed, timeout_seconds) ==
    [command |-> command, args |-> args, operands |-> operands, timed |-> timed,
     timeout_seconds |-> timeout_seconds]

\* tokio::time::timeout(Duration::from_secs(timeout_seconds), Command::output())
execute_command_with_timeout(command, args, operands, timeout_seconds) ==
    Launch(command, args, operands, TRUE, timeout_seconds)

\* execute_command_with_timeout on a platform's command, its default
\* arguments followed by the ones the executor adds
execute_platform_command(command_type, platform, added, timeout_seconds) ==
    LET c == get_platform_specific_command(command_type, platform)
    IN  execute_command_with_timeout(c[1], c[2] \o added, <<>>, timeout_seconds)

\* tokio::process::Command::new(command)...output().await
Command_output(command, args, operands) == Launch(command, args, operands, FALSE, 0)

\* what execute() does before it returns: Err(..) without a command, or the
\* commands it launches one after the other
Fails == [err |-> TRUE, launches |-> <<>>]

Runs(launches) == [err |-> FALSE, launches |-> launches]

GitFunctionExecutor_execute(name, args) ==
    CASE name = "git-status" ->
            IF ~args.object THEN Fails
            ELSE Runs(<<Command_output("git", <<"status", "--porcelain">>,
                                       <<unwrap_or(args.path, <<".">>)>>)>>)
      [] name = "git-diff" ->
            IF ~args.object THEN Fails
            ELSE Runs(<<Command_output("git", <<"diff">>,
                                       <<unwrap_or(args.path, <<".">>)>>)>>)
      [] name = "git-add" ->
            IF ~args.object \/ ~args.files.some THEN Fails
            ELSE Runs(<<Command_output("git", <<"add">>, args.files.value)>>)
      [] name = "git-commit" ->
            IF ~args.object \/ ~args.message.some THEN Fails
            ELSE Runs(<<Command_output("git", <<"commit", "-m", args.message.value>>, <<>>)>>)
      [] name = "git-push" ->
            IF ~args.object THEN Fails
            ELSE Runs(<<Command_output("git", <<"push", "origin", "HEAD">>, <<>>)>>)
      [] OTHER -> Fails

FileSystemExecutor_execute(name, args) ==
    CASE name = "fs-ls" ->
            LET safe_path == validate_and_normalize_path(unwrap_or(args.path, <<".">>))
            IN  IF ~args.object \/ ~safe_path.ok THEN Fails
                ELSE Runs(<<execute_command_with_timeout("ls", <<"-la">>, <<safe_path.value>>, 10)>>)
      [] name = "fs-pwd" -> Runs(<<execute_command_with_timeout("pwd", <<>>, <<>>, 5)>>)
      [] name = "fs-cat" ->
            LET safe_path == validate_and_normalize_path(args.path.value)
            IN  IF ~args.object \/ ~args.path.some \/ ~safe_path.ok THEN Fails
                ELSE Runs(<<execute_command_with_timeout("cat", <<>>, <<safe_path.value>>, 15)>>)
      [] name = "fs-find" ->
            LET safe_path == validate_and_normalize_path(unwrap_or(args.path, <<".">>))
            IN  IF ~args.object \/ ~safe_path.ok THEN Fails
                ELSE Runs(<<execute_command_with_timeout("find", <<"-name", "*">>, <<safe_path.value>>, 30)>>)
      [] OTHER -> Fails

SystemInfoExecutor_execute(name, args) ==
    CASE name = "sys-uname" ->
            IF ~args.object THEN Fails
            ELSE Runs(<<execute_command_with_timeout("uname", <<"-s">>, <<>>, 10)>>)
      [] name = "sys-ps" ->
            IF ~args.object THEN Fails
            ELSE Runs(<<execute_command_with_timeout("ps", <<"aux">>, <<>>, 15)>>)
      [] name = "sys-df" ->
            IF ~args.object THEN Fails
            ELSE Runs(<<execute_command_with_timeout(
                            "df", <<"-h">>, <<unwrap_or(args.path, <<".">>)>>, 10)>>)
      [] OTHER -> Fails

NetworkExecutor_execute(name, args) ==
    CASE name = "net-ping" ->
            IF ~args.object \/ ~args.host.some THEN Fails
            ELSE IF ~is_valid_host(args.host.value) THEN Fails
            ELSE Runs(<<execute_command_with_timeout(
                            "ping", <<"-c", "4", "-W", "10">>, <<args.host.value>>, 10 + 5)>>)
      [] OTHER -> Fails

DiagnosisExecutor_execute(name, args, platform) ==
    CASE name = "sys-uptime" ->
            IF ~args.object THEN Fails
            ELSE Runs(<<execute_platform_command("Uptime", platform, <<>>, 5)>>)
      [] name = "sys-meminfo" ->
            IF ~args.object THEN Fails
            ELSE Runs(<<execute_platform_command("MemInfo", platform, <<>>, 5)>>)
      [] OTHER -> Fails

MonitorExecutor_execute(name, args) ==
    CASE name = "sys-proc-top" ->
            IF ~args.object THEN Fails
            ELSE Runs(<<execute_command_with_timeout(
                            "ps", <<"aux", "--sort=-%cpu">>, <<>>, 15)>>)
      [] name = "sys-proc-stats" ->
            Runs(<<execute_command_with_timeout("ps", <<"axo", "pid,stat,comm">>, <<>>, 10)>>)
      [] OTHER -> Fails

perform_comprehensive_diagnosis(mode, platform) ==
    <<execute_platform_command("Uptime", platform, <<>>, 5),
      execute_platform_command("MemInfo", platform, <<>>, 5)>>
    \o (IF mode # "quick"
        THEN <<execute_platform_command(
                   "ProcessList", platform,
                   CASE platform = "MacOS" -> <<"-c", "-o", "%cpu,comm">>
                     [] platform = "Windows" -> <<"/fo", "csv">>
                     [] OTHER -> <<"--sort=-%cpu">>, 10)>>
        ELSE <<>>)
    \o (IF mode = "deep"
        THEN <<execute_platform_command(
                   "Iostat", platform,
                   IF platform = "Windows" THEN <<"1">> ELSE <<"1", "2">>, 10),
               execute_platform_command("NetStat", platform, <<>>, 10)>>
        ELSE <<>>)

AnalysisExecutor_execute(name, args, platform) ==
    CASE name = "sys-iostat" ->
            IF ~args.object THEN Fails
            ELSE Runs(<<execute_platform_command(
                            "Iostat", platform,
                            IF platform = "Windows" THEN <<"1">> ELSE <<"1", "2">>, 20)>>)
      [] name = "sys-netstat" ->
            IF ~args.object THEN Fails
            ELSE Runs(<<execute_platform_command(
                            "NetStat", platform,
                            IF platform = "Linux" THEN <<"-t">> ELSE <<"-p", "tcp">>, 15)>>)
      [] name = "sys-diagnose" ->
            IF ~args.object THEN Fails
            ELSE Runs(perform_comprehensive_diagnosis(
                          unwrap_or(args.mode, "standard"), platform))
      [] OTHER -> Fails

ExecutorNames == GitNames \cup FsNames \cup SysNames \cup NetNames
                     \cup DiagnosisNames \cup MonitorNames \cup AnalysisNames

\* FunctionExecutor::execute of the executor that declares the name
builtin_execute(name, args, platform) ==
    CASE name \in GitNames -> GitFunctionExecutor_execute(name, args)
      [] name \in FsNames -> FileSystemExecutor_execute(name, args)
      [] name \in SysNames -> SystemInfoExecutor_execute(name, args)
      [] name \in NetNames -> NetworkExecutor_execute(name, args)
      [] name \in DiagnosisNames -> DiagnosisExecutor_execute(name, args, platform)
      [] name \in MonitorNames -> MonitorExecutor_execute(name, args)
      [] name \in AnalysisNames -> AnalysisExecutor_execute(name, args, platform)

NoArgs == [object |-> TRUE, path |-> None, files |-> None, message |-> Absent,
           host |-> None, mode |-> Absent]

Paths ==
    {<<>>, <<".">>, <<"/", "t", "m", "p">>, <<"a", ".", "b">>,
     <<".", ".", "/", "x">>, <<"~", "/", "x">>, <<"x", ";", "y">>,
     <<"x", "|", "y">>, <<"x", "&", "y">>, <<"$", "x">>}

Hosts ==
    {<<>>, <<"l", "o", "c", "a", "l">>, <<"1", "0", ".", "0", ".", "0", ".", "1">>,
     <<"T", "e", "s", "t", "-", "h">>, Repeat("a", 253), Repeat("a", 254),
     <<"a", ";", "b">>, <<"a", "|", "b">>, <<"a", "&", "b">>, <<"a", ">", "b">>,
     <<"a", "<", "b">>, <<"a", "_", "b">>, <<"a", " ", "b">>, <<"a", "$", "b">>}

ArgInputs ==
    {NoArgs, [NoArgs EXCEPT !.object = FALSE],
     [NoArgs EXCEPT !.message = [some |-> TRUE, value |-> "msg"]]}
    \cup {[NoArgs EXCEPT !.path = Some(p)] : p \in Paths}
    \cup {[NoArgs EXCEPT !.files = Some(<<p>>)] :
              p \in {<<"a", ".", "r", "s">>, <<".", ".", "/", "x">>}}
    \cup {[NoArgs EXCEPT !.host = Some(h)] : h \in Hosts}
    \cup {[NoArgs EXCEPT !.mode = [some |-> TRUE, value |-> m]] :
              m \in {"quick", "standard", "deep"}}

CmdIdle ==
    [pc |-> "idle", name |-> "", args |-> NoArgs, platform |-> "Linux",
     launches |-> <<>>, idx |-> 0, hangs |-> FALSE, result |-> "none"]

InitCommands == cmd = CmdIdle

\* FunctionExecutor::execute up to its first command, or to its return
execute_begin(name, args, platform, hangs) ==
    /\ cmd.pc = "idle"
    /\ LET plan == builtin_execute(name, args, platform)
       IN  cmd' = [pc |-> IF plan.err \/ plan.launches = <<>> THEN "returned"
                          ELSE "running",
                   name |-> name, args |-> args, platform |-> platform,
                   launches |-> plan.launches,
                   idx |-> IF plan.launches = <<>> THEN 0 ELSE 1,
                   hangs |-> IF plan.launches = <<>> THEN FALSE ELSE hangs,
                   result |-> IF plan.err THEN "Err"
                              ELSE IF plan.launches = <<>> THEN "Ok" ELSE "none"]

\* the running command is over: execute() goes on to its next command or
\* returns Ok(FunctionResult { .. })
AfterCommand(hangs) ==
    IF cmd.idx < Len(cmd.launches)
    THEN [cmd EXCEPT !.idx = cmd.idx + 1, !.hangs = hangs]
    ELSE [cmd EXCEPT !.pc = "returned", !.hangs = FALSE, !.result = "Ok"]

\* the child process exits (or could not be spawned)
command_exits(hangs) ==
    /\ cmd.pc = "running"
    /\ ~cmd.hangs
    /\ cmd' = AfterCommand(hangs)

\* the timer of execute_command_with_timeout elapses before the child exits
timeout_elapses(hangs) ==
    /\ cmd.pc = "running"
    /\ cmd.launches[cmd.idx].timed
    /\ cmd' = AfterCommand(hangs)

NextCommands ==
    /\ UNCHANGED <<global_registry, pc, op, ret, pre, solo, snapshot, calls,
                   local, localRet, localCall, diag, parsers, parsed, tool_run>>
    /\ \/ /\ cmd.pc = "idle"
          /\ \E n \in ExecutorNames, a \in ArgInputs, p \in Platforms, h \in BOOLEAN :
                 execute_begin(n, a, p, h)
       \/ \E h \in BOOLEAN : command_exits(h)
       \/ \E h \in BOOLEAN : timeout_elapses(h)

(***************************************************************************)
(* ParserRegistry (src/exec_unit/parsers/mod.rs) and the shipped parsers   *)
(***************************************************************************)
\* raw text, by what the parsers look at: the tokens it contains, whether
\* its first character is a digit, its number of lines and whether a line
\* has more than three fields
RawText(tokens, digit, lines, wide) ==
    [tokens |-> tokens, first_is_digit |-> digit, lines |-> lines, wide |-> wide]

Inputs ==
    {RawText({"PID", "TTY", "TIME", "CMD"}, FALSE, 3, TRUE),
     RawText({"PID", "USER", "%CPU", "COMMAND"}, FALSE, 1, TRUE),
     RawText({"PID", "USER", "%CPU", "COMMAND"}, FALSE, 3, TRUE),
     RawText({"Proto", "Local Address", "tcp"}, FALSE, 3, TRUE),
     RawText({"Proto", "Local Address", "tcp", "PID"}, FALSE, 3, TRUE),
     RawText({"flags=", "mtu", "inet"}, FALSE, 3, TRUE),
     RawText({"Destination", "Gateway"}, FALSE, 3, TRUE),
     RawText({}, TRUE, 1, FALSE),
     RawText({}, FALSE, 1, FALSE),
     RawText({}, FALSE, 0, FALSE)}

ParserNames == {"process", "network", "test_parser"}

ProcessParser_can_parse(input) ==
    \/ "PID" \in input.tokens
    \/ input.first_is_digit
    \/ /\ input.wide
       /\ input.tokens \cap {"USER", "TTY", "CMD", "COMMAND"} # {}

ProcessParser_parse(input) ==
    IF {"PID", "TTY", "TIME"} \subseteq input.tokens
    THEN IF input.lines = 0 THEN "Err:InvalidFormat" ELSE "Ok:process"
    ELSE IF {"PID", "USER", "%CPU"} \subseteq input.tokens
    THEN IF input.lines < 2 THEN "Err:InvalidFormat" ELSE "Ok:process"
    ELSE IF input.first_is_digit
    THEN IF input.lines = 0 THEN "Err:InvalidFormat" ELSE "Ok:process"
    ELSE "Err:InvalidFormat"

NetworkParser_can_parse(input) ==
    \/ input.tokens \cap {"Proto", "Local Address", "flags=", "mtu",
                          "Destination", "Gateway"} # {}
    \/ /\ input.wide
       /\ input.tokens \cap {"tcp", "udp", "inet"} # {}

NetworkParser_parse(input) ==
    IF {"Proto", "Local Address"} \subseteq input.tokens
    THEN IF input.lines = 0 THEN "Err:EmptyInput" ELSE "Ok:network"
    ELSE IF input.tokens \cap {"flags=", "mtu"} # {}
    THEN IF input.lines = 0 THEN "Err:EmptyInput" ELSE "Ok:network"
    ELSE IF {"Destination", "Gateway"} \subseteq input.tokens
    THEN IF input.lines = 0 THEN "Err:EmptyInput" ELSE "Ok:network"
    ELSE "Err:InvalidFormat"

\* ParserTrait::can_parse; test_parser is the GenericParser of the
\* registry's own test: it accepts and parses everything
can_parse(parser, input) ==
    CASE parser = "process" -> ProcessParser_can_parse(input)
      [] parser = "network" -> NetworkParser_can_parse(input)
      [] parser = "test_parser" -> TRUE

\* ParserTrait::parse
Parser_parse(parser, input) ==
    CASE parser = "process" -> ProcessParser_parse(input)
      [] parser = "network" -> NetworkParser_parse(input)
      [] parser = "test_parser" -> "Ok:test_parser"

\* index of the first registered parser whose can_parse accepts, 0 if none
find_parser(registry, input) ==
    IF \E i \in 1..Len(registry) : can_parse(registry[i], input)
    THEN CHOOSE i \in 1..Len(registry) :
             /\ can_parse(registry[i], input)
             /\ \A j \in 1..(i - 1) : ~can_parse(registry[j], input)
    ELSE 0

ParserRegistry_parse(registry, input) ==
    LET i == find_parser(registry, input)
    IN  IF i # 0 THEN Parser_parse(registry[i], input) ELSE "Err:InvalidFormat"

NotParsed == [input |-> RawText({}, FALSE, 0, FALSE), result |-> "none"]

InitParsers == parsers = <<>> /\ parsed = NotParsed

ParserRegistry_register(parser) ==
    /\ Len(parsers) < MaxParsers
    /\ parsers' = Append(parsers, parser)
    /\ UNCHANGED parsed

registry_parse(input) ==
    /\ parsed' = [input |-> input, result |-> ParserRegistry_parse(parsers, input)]
    /\ UNCHANGED parsers

NextParsers ==
    /\ UNCHANGED <<global_registry, pc, op, ret, pre, solo, snapshot, calls,
                   local, localRet, localCall, diag, cmd, tool_run>>
    /\ \/ \E p \in ParserNames : ParserRegistry_register(p)
       \/ \E i \in Inputs : registry_parse(i)

(***************************************************************************)
(* Tool calls of a model response (src/exec_unit/unit.rs,                  *)
(* src/client/core.rs)                                                     *)
(***************************************************************************)
\* FunctionCall: the name and arguments the model asks for, and how the
\* command the executor launches for it ends
ToolCall(name, arguments, command) ==
    [name |-> name, arguments |-> arguments, command |-> command]

ToolCalls ==
    {ToolCall(n, a, c) : n \in {"net-ping", "ghost"},
                         a \in {"valid", "host_invalid"},
                         c \in {"exit_zero", "exit_nonzero"}}

\* AiResponse::tool_calls (None is the empty list)
Responses == UNION {[1..n -> ToolCalls] : n \in 0..MaxToolCalls}

\* the registry the unit holds: the network tools registered
UnitRegistry == register_tools(FunctionRegistry_new, "NetworkExecutor")

FunctionResult(name, result, error) ==
    [name |-> name, result |-> result, error |-> error]

\* what the executor behind a tool call hands back: Err(e), or
\* Ok(FunctionResult) with or without an error in its error slot
Executed(call) ==
    Registry_execute_function(UnitRegistry, call.name, call.arguments, call.command)

IsErr(r) == r \notin {"FunctionResult", "FunctionResult:error"}

ToolRunIdle ==
    [pc |-> "idle", handler |-> "", tool_calls |-> <<>>, results |-> <<>>,
     ret |-> "none"]

InitToolRun == tool_run = ToolRunIdle

\* the model's response arrives at execute_with_func or handle_function_calls
tool_calls_received(handler, response) ==
    /\ tool_run.pc = "idle"
    /\ tool_run' = [tool_run EXCEPT !.pc = "loop", !.handler = handler,
                                    !.tool_calls = response]

\* one turn of the loop of execute_with_func
execute_with_func_call ==
    /\ tool_run.pc = "loop"
    /\ tool_run.handler = "execute_with_func"
    /\ Len(tool_run.results) < Len(tool_run.tool_calls)
    /\ LET tool_call == tool_run.tool_calls[Len(tool_run.results) + 1]
           execution_result == Executed(tool_call)
       IN  tool_run' =
               [tool_run EXCEPT !.results =
                   Append(@, IF IsErr(execution_result)
                             THEN FunctionResult(tool_call.name, "Null", execution_result)
                             ELSE FunctionResult(tool_call.name, "result", "None"))]

execute_with_func_return ==
    /\ tool_run.pc = "loop"
    /\ tool_run.handler = "execute_with_func"
    /\ Len(tool_run.results) = Len(tool_run.tool_calls)
    /\ tool_run' = [tool_run EXCEPT !.pc = "done", !.ret = "Ok"]

\* one turn of the loop of handle_function_calls: `?` leaves at an Err
handle_function_calls_call ==
    /\ tool_run.pc = "loop"
    /\ tool_run.handler = "handle_function_calls"
    /\ Len(tool_run.results) < Len(tool_run.tool_calls)
    /\ LET tool_call == tool_run.tool_calls[Len(tool_run.results) + 1]
           result == Executed(tool_call)
       IN  IF IsErr(result)
           THEN tool_run' = [tool_run EXCEPT !.pc = "done", !.ret = result]
           ELSE tool_run' =
                    [tool_run EXCEPT !.results =
                        Append(@, FunctionResult(tool_call.name, "result", "None"))]

handle_function_calls_return ==
    /\ tool_run.pc = "loop"
    /\ tool_run.handler = "handle_function_calls"
    /\ Len(tool_run.results) = Len(tool_run.tool_calls)
    /\ tool_run' = [tool_run EXCEPT !.pc = "done", !.ret = "Ok"]

NextToolCalls ==
    /\ UNCHANGED <<global_registry, pc, op, ret, pre, solo, snapshot, calls,
                   local, localRet, localCall, diag, cmd, parsers, parsed>>
    /\ \/ /\ tool_run.pc = "idle"
          /\ \E h \in {"execute_with_func", "handle_function_calls"}, r \in Responses :
                 tool_calls_received(h, r)
       \/ execute_with_func_call
       \/ execute_with_func_return
       \/ handle_function_calls_call
       \/ handle_function_calls_return

(***************************************************************************)
(* GlobalFunctionRegistry (src/func/global.rs)                             *)
(***************************************************************************)
\* the OnceLock before any set(): get() returns None
Unset == [set |-> FALSE, some |-> FALSE, reg |-> FunctionRegistry_new]

\* the RwLock holding None (after reset) or Some(registry)
HoldsNone == [set |-> TRUE, some |-> FALSE, reg |-> FunctionRegistry_new]

HoldsSome(r) == [set |-> TRUE, some |-> TRUE, reg |-> r]

NoCall == [kind |-> "none", functions |-> <<>>, name |-> "", executor |-> "",
           tools |-> <<>>]

CallOf(k, fs, n, e) == [kind |-> k, functions |-> fs, name |-> n, executor |-> e,
                        tools |-> <<>>]

\* get_registry_with_tools(tools)
CallWithTools(ts) ==
    [CallOf("get_registry_with_tools", <<>>, "", "") EXCEPT !.tools = ts]

ToolSetAB == CallOf("register_tool_set",
                    <<FunctionDefinition("tool-b", "v1"), FunctionDefinition("tool-a", "v1")>>,
                    "", "ExecAB")

ToolSetCD == CallOf("register_tool_set",
                    <<FunctionDefinition("tool-c", "v1"), FunctionDefinition("tool-d", "v1")>>,
                    "", "ExecCD")

\* the calls the tasks make, with their arguments
CallInputs ==
    {CallOf(k, <<>>, "", "") : k \in {"initialize", "reset", "force_reinitialize", "get_registry"}}
    \cup {CallOf("register_function", <<FunctionDefinition("tool-a", d)>>, "tool-a", "") :
            d \in {"v1", "v2"}}
    \cup {CallOf("register_function", <<FunctionDefinition("git-status", "v1")>>,
                 "git-status", "")}
    \cup {CallOf("register_executor", <<>>, n, "ExecA") : n \in {"tool-a", "tool-b"}}
    \cup {ToolSetAB, ToolSetCD}
    \cup {CallOf("unregister_function", <<>>, n, "") : n \in {"tool-a", "git-status"}}

DynamicKinds == {"register_function", "register_executor", "register_tool_set",
                 "unregister_function"}

Entry(k) ==
    CASE k = "initialize" -> "init_check"
      [] k = "reset" -> "reset"
      [] k = "force_reinitialize" -> "force_reset"
      [] k = "get_registry" -> "get_registry"
      [] k = "get_registry_with_tools" -> "get_with_tools"
      [] k = "copy_register_function" -> "copy_rf"
      [] k = "copy_unregister_function" -> "copy_un"
      [] OTHER -> "ensure_get"

\* a step of task t ends the solo run of every other task inside a call
Touch(t) == solo' = [u \in Tasks |-> IF u # t /\ pc[u] # "idle" THEN FALSE ELSE solo[u]]

Goto(t, l) == /\ pc' = [pc EXCEPT ![t] = l]
              /\ ret' = ret

Return(t, r) == /\ pc' = [pc EXCEPT ![t] = "idle"]
                /\ ret' = [ret EXCEPT ![t] = r]

\* initialize() returns r: to the caller, or into ensure_initialized (`?`)
InitializeReturns(t, r) ==
    IF op[t].kind \in DynamicKinds /\ r = "Ok"
    THEN Goto(t, "ensure_verify")
    ELSE Return(t, r)

Call(t, o) ==
    /\ pc[t] = "idle"
    /\ calls < MaxCalls
    /\ calls' = calls + 1
    /\ op' = [op EXCEPT ![t] = o]
    /\ pre' = [pre EXCEPT ![t] = global_registry]
    /\ solo' = [solo EXCEPT ![t] = TRUE]
    /\ pc' = [pc EXCEPT ![t] = Entry(o.kind)]
    /\ ret' = [ret EXCEPT ![t] = "none"]
    /\ UNCHANGED <<global_registry, snapshot>>

\* initialize(), lines 32-40: already initialized?
initialize_check(t) ==
    /\ pc[t] = "init_check"
    /\ IF global_registry.set /\ global_registry.some
       THEN InitializeReturns(t, "Ok")
       ELSE Goto(t, "init_set")
    /\ Touch(t)
    /\ UNCHANGED <<global_registry, op, pre, snapshot, calls>>

\* initialize(), lines 44-47: build the registry; OnceLock::set keeps the
\* first value and its result is discarded
initialize_set(t) ==
    /\ pc[t] = "init_set"
    /\ global_registry' = IF global_registry.set
                          THEN global_registry
                          ELSE HoldsSome(create_and_register_tools)
    /\ Goto(t, "init_verify")
    /\ Touch(t)
    /\ UNCHANGED <<op, pre, snapshot, calls>>

\* initialize(), lines 50-70
initialize_verify(t) ==
    /\ pc[t] = "init_verify"
    /\ IF ~global_registry.set THEN InitializeReturns(t, "NotInitialized")
       ELSE IF ~global_registry.some THEN InitializeReturns(t, "InitFailed")
       ELSE InitializeReturns(t, "Ok")
    /\ Touch(t)
    /\ UNCHANGED <<global_registry, op, pre, snapshot, calls>>

\* the body of reset(): *registry = None when the OnceLock is set
Cleared == IF global_registry.set THEN HoldsNone ELSE global_registry

reset(t) ==
    /\ pc[t] = "reset"
    /\ global_registry' = Cleared
    /\ Return(t, "Ok")
    /\ Touch(t)
    /\ UNCHANGED <<op, pre, snapshot, calls>>

\* force_reinitialize(): reset(), clear again, initialize()
force_reinitialize_reset(t) ==
    /\ pc[t] = "force_reset"
    /\ global_registry' = Cleared
    /\ Goto(t, "force_clear")
    /\ Touch(t)
    /\ UNCHANGED <<op, pre, snapshot, calls>>

force_reinitialize_clear(t) ==
    /\ pc[t] = "force_clear"
    /\ global_registry' = Cleared
    /\ Goto(t, "init_check")
    /\ Touch(t)
    /\ UNCHANGED <<op, pre, snapshot, calls>>

get_registry(t) ==
    /\ pc[t] = "get_registry"
    /\ IF global_registry.set /\ global_registry.some
       THEN /\ snapshot' = [snapshot EXCEPT ![t] = Registry_clone_registry(global_registry.reg)]
            /\ Return(t, "Ok")
       ELSE /\ snapshot' = snapshot
            /\ Return(t, "NotInitialized")
    /\ Touch(t)
    /\ UNCHANGED <<global_registry, op, pre, calls>>

Range(seq) == {seq[i] : i \in 1..Len(seq)}

\* get_registry_with_tools(), lines 258-262: the executor of every listed
\* name that has one in the full copy
RECURSIVE copy_executors(_, _, _, _)
copy_executors(filtered, full, tools, i) ==
    IF i > Len(tools) THEN filtered
    ELSE IF tools[i] \in DOMAIN full.executors
    THEN copy_executors(
             Registry_register_executor(filtered, tools[i], full.executors[tools[i]]),
             full, tools, i + 1)
    ELSE copy_executors(filtered, full, tools, i + 1)

\* get_registry_with_tools() with an empty list answered by an empty registry
filter_registry_empty_is_empty(full, tools) ==
    copy_executors(
        [functions |-> [n \in {m \in DOMAIN full.functions : m \in Range(tools)} |->
                          full.functions[n]],
         executors |-> EmptyMap],
        full, tools, 1)

\* get_registry_with_tools(), lines 242-265, on the copy get_registry() made
filter_registry(full, tools) ==
    IF tools = <<>> THEN full
    ELSE copy_executors(
             [functions |-> [n \in {m \in DOMAIN full.functions : m \in Range(tools)} |->
                               full.functions[n]],
              executors |-> EmptyMap],
             full, tools, 1)

get_registry_with_tools(t) ==
    /\ pc[t] = "get_with_tools"
    /\ IF global_registry.set /\ global_registry.some
       THEN /\ snapshot' = [snapshot EXCEPT ![t] =
                    filter_registry(Registry_clone_registry(global_registry.reg),
                                    op[t].tools)]
            /\ Return(t, "Ok")
       ELSE /\ snapshot' = snapshot
            /\ Return(t, "NotInitialized")
    /\ Touch(t)
    /\ UNCHANGED <<global_registry, op, pre, calls>>

\* FunctionRegistry::register_function on the copy a task holds
copy_register_function(t) ==
    /\ pc[t] = "copy_rf"
    /\ snapshot' = [snapshot EXCEPT ![t] =
            Registry_register_function(snapshot[t], op[t].functions[1])]
    /\ Return(t, "Ok")
    /\ Touch(t)
    /\ UNCHANGED <<global_registry, op, pre, calls>>

\* FunctionRegistry::unregister_function on the copy a task holds
copy_unregister_function(t) ==
    /\ pc[t] = "copy_un"
    /\ snapshot' = [snapshot EXCEPT ![t] =
            Registry_unregister_function(snapshot[t], op[t].name)]
    /\ Return(t, "Ok")
    /\ Touch(t)
    /\ UNCHANGED <<global_registry, op, pre, calls>>

\* ensure_initialized(), lines 291-293
ensure_initialized_get(t) ==
    /\ pc[t] = "ensure_get"
    /\ IF ~global_registry.set
       THEN Goto(t, "init_check")
       ELSE Goto(t, "ensure_verify")
    /\ Touch(t)
    /\ UNCHANGED <<global_registry, op, pre, snapshot, calls>>

\* the executor check made by register_executor and register_tool_set before
\* they take the write lock
ExecutorSupports(o) ==
    CASE o.kind = "register_executor" -> o.name \in supported_functions(o.executor)
      [] o.kind = "register_tool_set" ->
            \A i \in 1..Len(o.functions) :
                o.functions[i].name \in supported_functions(o.executor)
      [] OTHER -> TRUE

AfterEnsure(k) ==
    CASE k = "register_function" -> "rf_check"
      [] k = "register_executor" -> "re_write"
      [] k = "register_tool_set" -> "ts_write"
      [] OTHER -> "un_write"

\* ensure_initialized(), lines 296-311, then the caller's argument check
ensure_initialized_verify(t) ==
    /\ pc[t] = "ensure_verify"
    /\ IF ~global_registry.set THEN Return(t, "NotInitialized")
       ELSE IF ~global_registry.some THEN Return(t, "InitFailed")
       ELSE IF ~ExecutorSupports(op[t]) THEN Return(t, "ContractViolation")
       ELSE Goto(t, AfterEnsure(op[t].kind))
    /\ Touch(t)
    /\ UNCHANGED <<global_registry, op, pre, snapshot, calls>>

\* register_function() without the name check
register_function_check_skipped(t) ==
    /\ pc[t] = "rf_check"
    /\ Goto(t, "rf_write")
    /\ Touch(t)
    /\ UNCHANGED <<global_registry, op, pre, snapshot, calls>>

\* register_function(), lines 320-334: the name check under the read lock
register_function_check(t) ==
    /\ pc[t] = "rf_check"
    /\ IF global_registry.set /\ global_registry.some
          /\ Registry_contains_function(global_registry.reg, op[t].name)
       THEN Return(t, "AlreadyRegistered")
       ELSE Goto(t, "rf_write")
    /\ Touch(t)
    /\ UNCHANGED <<global_registry, op, pre, snapshot, calls>>

\* register_function(), lines 337-349: the insert under the write lock
register_function_write(t) ==
    /\ pc[t] = "rf_write"
    /\ IF global_registry.set /\ global_registry.some
       THEN /\ global_registry' = HoldsSome(
                    Registry_register_function(global_registry.reg, op[t].functions[1]))
            /\ Return(t, "Ok")
       ELSE /\ global_registry' = global_registry
            /\ Return(t, "NotAvailable")
    /\ Touch(t)
    /\ UNCHANGED <<op, pre, snapshot, calls>>

\* register_executor(), lines 370-382
register_executor_write(t) ==
    /\ pc[t] = "re_write"
    /\ IF global_registry.set /\ global_registry.some
       THEN /\ global_registry' = HoldsSome(
                    Registry_register_executor(global_registry.reg, op[t].name, op[t].executor))
            /\ Return(t, "Ok")
       ELSE /\ global_registry' = global_registry
            /\ Return(t, "NotAvailable")
    /\ Touch(t)
    /\ UNCHANGED <<op, pre, snapshot, calls>>

\* register_tool_set(), lines 413-422: definitions are inserted one by one
\* and the loop returns at the first name that is already present
RECURSIVE register_tool_set_loop(_, _, _)
register_tool_set_loop(reg, fs, i) ==
    IF i > Len(fs) THEN [reg |-> reg, err |-> FALSE]
    ELSE IF Registry_contains_function(reg, fs[i].name) THEN [reg |-> reg, err |-> TRUE]
    ELSE register_tool_set_loop(Registry_register_function(reg, fs[i]), fs, i + 1)

\* register_tool_set(), lines 425-427: the executor under every name it
\* supports
bind_supported(reg, e) ==
    [reg EXCEPT !.executors =
        [n \in (DOMAIN reg.executors) \cup supported_functions(e) |->
            IF n \in supported_functions(e) THEN e ELSE reg.executors[n]]]

\* register_tool_set() taking the write lock twice: the definitions under the
\* first lock, the executor bindings under the second
register_tool_set_write_two_locks(t) ==
    /\ pc[t] = "ts_write"
    /\ IF global_registry.set /\ global_registry.some
       THEN IF \A i \in 1..Len(op[t].functions) :
                   /\ op[t].functions[i].name \in DOMAIN global_registry.reg.functions
                   /\ op[t].functions[i].name \notin DOMAIN global_registry.reg.executors
            THEN /\ global_registry' =
                        HoldsSome(bind_supported(global_registry.reg, op[t].executor))
                 /\ Return(t, "Ok")
            ELSE LET r == register_tool_set_loop(global_registry.reg, op[t].functions, 1)
                 IN  /\ global_registry' = HoldsSome(r.reg)
                     /\ IF r.err THEN Return(t, "AlreadyRegistered")
                                 ELSE Goto(t, "ts_write")
       ELSE /\ global_registry' = global_registry
            /\ Return(t, "NotAvailable")
    /\ Touch(t)
    /\ UNCHANGED <<op, pre, snapshot, calls>>

\* register_tool_set() writing back a registry copied when the call was made
register_tool_set_write_stale(t) ==
    /\ pc[t] = "ts_write"
    /\ IF global_registry.set /\ global_registry.some
       THEN LET r == register_tool_set_loop(pre[t].reg, op[t].functions, 1)
            IN  IF r.err
                THEN /\ global_registry' = HoldsSome(r.reg)
                     /\ Return(t, "AlreadyRegistered")
                ELSE /\ global_registry' = HoldsSome(bind_supported(r.reg, op[t].executor))
                     /\ Return(t, "Ok")
       ELSE /\ global_registry' = global_registry
            /\ Return(t, "NotAvailable")
    /\ Touch(t)
    /\ UNCHANGED <<op, pre, snapshot, calls>>

register_tool_set_write(t) ==
    /\ pc[t] = "ts_write"
    /\ IF global_registry.set /\ global_registry.some
       THEN LET r == register_tool_set_loop(global_registry.reg, op[t].functions, 1)
            IN  IF r.err
                THEN /\ global_registry' = HoldsSome(r.reg)
                     /\ Return(t, "AlreadyRegistered")
                ELSE /\ global_registry' = HoldsSome(bind_supported(r.reg, op[t].executor))
                     /\ Return(t, "Ok")
       ELSE /\ global_registry' = global_registry
            /\ Return(t, "NotAvailable")
    /\ Touch(t)
    /\ UNCHANGED <<op, pre, snapshot, calls>>

\* unregister_function(), lines 443-456
unregister_function_write(t) ==
    /\ pc[t] = "un_write"
    /\ IF global_registry.set /\ global_registry.some
       THEN /\ global_registry' = HoldsSome(
                    Registry_unregister_function(global_registry.reg, op[t].name))
            /\ Return(t, "Ok")
       ELSE /\ global_registry' = global_registry
            /\ Return(t, "NotAvailable")
    /\ Touch(t)
    /\ UNCHANGED <<op, pre, snapshot, calls>>

InitGlobal ==
    /\ global_registry = Unset
    /\ pc = [t \in Tasks |-> "idle"]
    /\ op = [t \in Tasks |-> NoCall]
    /\ ret = [t \in Tasks |-> "none"]
    /\ pre = [t \in Tasks |-> Unset]
    /\ solo = [t \in Tasks |-> TRUE]
    /\ snapshot = [t \in Tasks |-> FunctionRegistry_new]
    /\ calls = 0

Init == InitGlobal /\ InitLocal /\ InitDiag /\ InitCommands /\ InitParsers
            /\ InitToolRun

Next ==
    /\ UNCHANGED <<local, localRet, localCall, diag>>
    /\ UNCHANGED unitVars
    /\ \E t \in Tasks :
        \/ \E o \in CallInputs : Call(t, o)
        \/ initialize_check(t)
        \/ initialize_set(t)
        \/ initialize_verify(t)
        \/ reset(t)
        \/ force_reinitialize_reset(t)
        \/ force_reinitialize_clear(t)
        \/ get_registry(t)
        \/ ensure_initialized_get(t)
        \/ ensure_initialized_verify(t)
        \/ register_function_check(t)
        \/ register_function_write(t)
        \/ register_executor_write(t)
        \/ register_tool_set_write(t)
        \/ unregister_function_write(t)

Spec == Init /\ [][Next]_vars

\* the calls of tasks that read snapshots of the manager and work on them
SnapshotInputs ==
    {CallOf(k, <<>>, "", "") : k \in {"initialize", "reset", "get_registry"}}
    \cup {CallWithTools(ts) : ts \in {<<>>, <<"tool-x">>, <<"git-status", "tool-a", "tool-x">>}}
    \cup {ToolSetAB}
    \cup {CallOf("register_executor", <<>>, "tool-a", "ExecA")}
    \cup {CallOf("unregister_function", <<>>, n, "") : n \in {"tool-a", "tool-b"}}
    \cup {CallOf("copy_register_function", <<FunctionDefinition("tool-x", "v1")>>,
                 "tool-x", "")}
    \cup {CallOf("copy_unregister_function", <<>>, "git-status", "")}

NextSnapshots ==
    /\ UNCHANGED <<local, localRet, localCall, diag>>
    /\ UNCHANGED unitVars
    /\ \E t \in Tasks :
        \/ \E o \in SnapshotInputs : Call(t, o)
        \/ initialize_check(t)
        \/ initialize_set(t)
        \/ initialize_verify(t)
        \/ reset(t)
        \/ get_registry(t)
        \/ get_registry_with_tools(t)
        \/ copy_register_function(t)
        \/ copy_unregister_function(t)
        \/ ensure_initialized_get(t)
        \/ ensure_initialized_verify(t)
        \/ register_executor_write(t)
        \/ register_tool_set_write(t)
        \/ unregister_function_write(t)

SpecSnapshots == Init /\ [][NextSnapshots]_vars

NextRegistry ==
    /\ UNCHANGED <<global_registry, pc, op, ret, pre, solo, snapshot, calls, diag>>
    /\ UNCHANGED unitVars
    /\ \/ \E n \in LocalNames, d \in {"v1", "v2"} :
              local_register_function(FunctionDefinition(n, d))
       \/ \E n \in LocalNames, e \in LocalExecutors : local_register_executor(n, e)
       \/ local_register_executor("net-ping", "NetworkExecutor")
       \/ \E n \in LocalNames : local_unregister_function(n)
       \/ \E n \in LocalNames \cup {"net-ping"}, a \in Arguments, c \in Commands :
              local_execute_function(n, a, c)

SpecRegistry == Init /\ [][NextRegistry]_vars

\* a tool set naming only one of the two functions its executor supports
ToolSetB == CallOf("register_tool_set", <<FunctionDefinition("tool-b", "v1")>>,
                   "", "ExecAB")

\* the calls of tasks that register tool sets next to single registrations
ToolSetInputs ==
    {CallOf("initialize", <<>>, "", ""), CallOf("reset", <<>>, "", ""),
     ToolSetB, ToolSetAB,
     CallOf("register_function", <<FunctionDefinition("tool-a", "v1")>>, "tool-a", ""),
     CallOf("register_executor", <<>>, "tool-a", "ExecA"),
     CallOf("unregister_function", <<>>, "tool-b", "")}

NextToolSets ==
    /\ UNCHANGED <<local, localRet, localCall, diag>>
    /\ UNCHANGED unitVars
    /\ \E t \in Tasks :
        \/ \E o \in ToolSetInputs : Call(t, o)
        \/ initialize_check(t)
        \/ initialize_set(t)
        \/ initialize_verify(t)
        \/ reset(t)
        \/ ensure_initialized_get(t)
        \/ ensure_initialized_verify(t)
        \/ register_function_check(t)
        \/ register_function_write(t)
        \/ register_executor_write(t)
        \/ register_tool_set_write(t)
        \/ unregister_function_write(t)

SpecToolSets == Init /\ [][NextToolSets]_vars

SpecDiagnosis == Init /\ [][NextDiagnosis]_vars

SpecCommands == Init /\ [][NextCommands]_vars

SpecParsers == Init /\ [][NextParsers]_vars

SpecToolCalls == Init /\ [][NextToolCalls]_vars

\* a child that exits is reaped and a timer that is armed elapses
SpecCommandsFair ==
    /\ SpecCommands
    /\ WF_cmd(\E h \in BOOLEAN : command_exits(h))
    /\ WF_cmd(\E h \in BOOLEAN : timeout_elapses(h))

(***************************************************************************)
(* Properties                                                              *)
(***************************************************************************)
Returned(t) == pc[t] = "idle" /\ ret[t] # "none"

\* the step in which task t's call returns
Returns(t) == pc[t] # "idle" /\ pc'[t] = "idle"

\* task t ran its call with every other task idle
Alone(t) == solo[t] /\ \A u \in Tasks \ {t} : pc[u] = "idle"

ToolSetNames(o) == {o.functions[i].name : i \in 1..Len(o.functions)}

EnabledPhases(cfg) == {Phases[i] : i \in {j \in 1..4 : PhaseEnabled(cfg, Phases[j])}}

\* C1: when a capability call of a diagnostic phase fails, the run still
\* ends with a report, the failure is counted in its execution summary and
\* every enabled phase was executed.
C1_FailureCountedNotPropagated ==
    (diag.pc = "done" /\ diag.failures > 0) =>
        /\ diag.result = "report"
        /\ diag.report.failed_functions = diag.failures
        /\ diag.ran = EnabledPhases(diag.config)

\* C2: a diagnosis call ends with a DiagnosticReport, never an error, for
\* every depth or custom configuration and every registry, the bootstrapped
\* built-in registry included.
C2_AlwaysReturnsReport ==
    diag.pc = "done" => diag.result = "report"

\* C3: a register_tool_set call that fails on an initialized manager leaves
\* the global registry exactly as it was before the call.
C3_ToolSetAllOrNothing ==
    [][\A t \in Tasks :
         (/\ Returns(t)
          /\ op[t].kind = "register_tool_set"
          /\ Alone(t)
          /\ pre[t].some
          /\ ret'[t] # "Ok")
         => global_registry' = pre[t]]_vars

\* C4: in every registry state, each bound name is in the supported set of
\* the executor it is bound to.
C4_BoundNamesAreSupported ==
    \A n \in DOMAIN local.executors : n \in supported_functions(local.executors[n])

\* C5: register_function with a name that is already registered returns
\* AlreadyRegistered and leaves the stored schema and every other entry
\* unchanged.
C5_DuplicateRejectedUnchanged ==
    [][\A t \in Tasks :
         (/\ Returns(t)
          /\ op[t].kind = "register_function"
          /\ solo[t]
          /\ pre[t].some
          /\ Registry_contains_function(pre[t].reg, op[t].name))
         => (ret'[t] = "AlreadyRegistered" /\ global_registry' = pre[t])]_vars

\* C5 witness: a duplicate of a dynamically added name, offered with another
\* schema, was rejected and the first schema is still stored.
C5_Witness ==
    \E t \in Tasks :
        /\ Returned(t) /\ solo[t]
        /\ op[t].kind = "register_function" /\ op[t].name = "tool-a"
        /\ pre[t].some /\ Registry_contains_function(pre[t].reg, "tool-a")
        /\ pre[t].reg.functions["tool-a"] # op[t].functions[1]
        /\ ret[t] = "AlreadyRegistered"
        /\ global_registry = pre[t]

\* C6: registrations behave as if executed one at a time: once one task's
\* register_function call for a name has succeeded, another task's call for
\* the same name succeeds only if the name is no longer registered at the
\* moment it writes, so of several concurrent calls exactly one succeeds and
\* its schema is not replaced by another call's.
C6_RegisterFunctionSerialized ==
    [][\A t, u \in Tasks :
         (/\ t # u
          /\ pc[t] = "rf_write" /\ ret'[t] = "Ok"
          /\ Returned(u) /\ ret[u] = "Ok"
          /\ op[u].kind = "register_function" /\ op[u].name = op[t].name)
         => ~Registry_contains_function(global_registry.reg, op[t].name)]_vars

\* C7: two concurrent register_tool_set calls with disjoint sets of new
\* functions on an initialized manager both succeed; every name of both sets
\* is then registered with its schema and executor and the number of
\* registered functions has grown by exactly 2 * 2.
IsNewToolSet(o, cell) ==
    /\ cell.some
    /\ ToolSetNames(o) \cap DOMAIN cell.reg.functions = {}

ToolSetRegistered(o, reg) ==
    \A i \in 1..Len(o.functions) :
        /\ o.functions[i].name \in DOMAIN reg.functions
        /\ reg.functions[o.functions[i].name] = o.functions[i]
        /\ o.functions[i].name \in DOMAIN reg.executors
        /\ reg.executors[o.functions[i].name] = o.executor

ConcurrentToolSets(t1, t2) ==
    /\ t1 # t2
    /\ Returned(t1) /\ Returned(t2)
    /\ op[t1] = ToolSetAB /\ op[t2] = ToolSetCD
    /\ pre[t1] = pre[t2]
    /\ IsNewToolSet(op[t1], pre[t1]) /\ IsNewToolSet(op[t2], pre[t2])

C8_InitializeAlwaysSucceeds ==
    [][\A t \in Tasks :
         (Returns(t) /\ op[t].kind = "initialize" /\ Alone(t))
         => (ret'[t] = "Ok" /\ global_registry'.some)]_vars

\* C9: a dynamic-registration call made on a never-bootstrapped manager
\* bootstraps the built-in tools before applying its own change: when it
\* returns, the registry holds the built-ins together with that change.
ChangeApplied(o, r, reg) ==
    CASE o.kind = "register_function" ->
            IF o.name \in BuiltinNames
            THEN r = "AlreadyRegistered"
                 /\ reg.functions[o.name] = FunctionDefinition(o.name, "builtin")
            ELSE r = "Ok" /\ o.name \in DOMAIN reg.functions
                 /\ reg.functions[o.name] = o.functions[1]
      [] o.kind = "register_executor" ->
            IF o.name \in supported_functions(o.executor)
            THEN r = "Ok" /\ o.name \in DOMAIN reg.executors
                 /\ reg.executors[o.name] = o.executor
            ELSE r = "ContractViolation" /\ o.name \notin DOMAIN reg.executors
      [] o.kind = "register_tool_set" -> r = "Ok" /\ ToolSetRegistered(o, reg)
      [] OTHER -> r = "Ok" /\ o.name \notin DOMAIN reg.functions
                  /\ o.name \notin DOMAIN reg.executors

BuiltinsPresent(o, reg) ==
    \A n \in BuiltinNames :
        (o.kind = "unregister_function" /\ o.name = n)
        \/ (/\ n \in DOMAIN reg.functions
            /\ n \in DOMAIN reg.executors
            /\ n \in supported_functions(reg.executors[n]))

C9_FirstDynamicCallBootstraps ==
    [][\A t \in Tasks :
         (/\ Returns(t)
          /\ op[t].kind \in DynamicKinds
          /\ solo[t]
          /\ ~pre[t].set)
         => /\ global_registry'.some
            /\ BuiltinsPresent(op[t], global_registry'.reg)
            /\ ChangeApplied(op[t], ret'[t], global_registry'.reg)]_vars

C9_Witness ==
    \E t \in Tasks :
        /\ Returned(t) /\ solo[t] /\ ~pre[t].set
        /\ op[t].kind = "register_function" /\ op[t].name = "tool-a"
        /\ ret[t] = "Ok"
        /\ global_registry.some
        /\ DOMAIN global_registry.reg.functions = BuiltinNames \cup {"tool-a"}

\* C10: after reset(), a following initialize() returns success and a
\* following dynamic-registration call initializes the registry again, so
\* that the registry holds the built-in tools.
C10_ResetIsRecoverable ==
    [][\A t \in Tasks :
         (/\ Returns(t)
          /\ Alone(t)
          /\ pre[t] = HoldsNone
          /\ op[t].kind \in {"initialize"} \cup DynamicKinds)
         => /\ ret'[t] \notin {"InitFailed", "NotInitialized", "NotAvailable"}
            /\ global_registry'.some
            /\ BuiltinNames \ {op[t].name}
                    \subseteq DOMAIN global_registry'.reg.functions]_vars

ReadKinds == {"get_registry", "get_registry_with_tools"}

\* the names of tool set o a read with the list `tools` asks for
AskedNames(o, tools) ==
    IF tools = <<>> THEN ToolSetNames(o) ELSE ToolSetNames(o) \cap Range(tools)

AllOfToolSet(o, tools, reg) ==
    \A i \in 1..Len(o.functions) :
        o.functions[i].name \in AskedNames(o, tools) =>
            /\ o.functions[i].name \in DOMAIN reg.functions
            /\ reg.functions[o.functions[i].name] = o.functions[i]
            /\ o.functions[i].name \in DOMAIN reg.executors
            /\ reg.executors[o.functions[i].name] = o.executor

NoneOfToolSet(o, reg) ==
    \A n \in ToolSetNames(o) :
        /\ n \notin DOMAIN reg.functions
        /\ n \in DOMAIN reg.executors => reg.executors[n] # o.executor

\* task u read a snapshot while task t's successful register_tool_set call
\* was in progress
ReadDuringToolSet(t, u) ==
    /\ t # u
    /\ Returned(t) /\ op[t].kind = "register_tool_set" /\ ret[t] = "Ok"
    /\ Returned(u) /\ op[u].kind \in ReadKinds /\ ret[u] = "Ok"
    /\ ~solo[t] /\ ~solo[u]

\* C11: a snapshot returned by get_registry() or get_registry_with_tools()
\* concurrently with a successful register_tool_set call holds either none
\* or all of the tool set's definitions and executor bindings (all of those
\* the read asked for).
C11_SnapshotSeesAllOrNone ==
    \A t, u \in Tasks :
        ReadDuringToolSet(t, u) =>
            \/ NoneOfToolSet(op[t], snapshot[u])
            \/ AllOfToolSet(op[t], op[u].tools, snapshot[u])

\* C11 witnesses: a concurrent read that saw the whole tool set, and one that
\* saw none of it although the tool set is registered by now
C11_Witness ==
    \E t, u \in Tasks :
        /\ ReadDuringToolSet(t, u)
        /\ op[u].kind = "get_registry"
        /\ NoneOfToolSet(op[t], snapshot[u])
        /\ snapshot[u] # FunctionRegistry_new
        /\ global_registry.some
        /\ ToolSetRegistered(op[t], global_registry.reg)

\* a name registered neither as a schema nor as an executor binding
AbsentName(reg, n) == n \notin DOMAIN reg.functions /\ n \notin DOMAIN reg.executors

\* C12: get_registry_with_tools(names) returns the full registry for an empty
\* list; otherwise its function names are exactly the registered names that
\* occur in the list, each with the schema and the executor it has in the
\* global registry, absent names contribute nothing and a list of only
\* absent names gives an empty registry.
C12_FilteredSnapshotIsPresentSubset ==
    [][\A t \in Tasks :
         (/\ Returns(t)
          /\ op[t].kind = "get_registry_with_tools"
          /\ ret'[t] = "Ok")
         => LET full == global_registry.reg
                names == Range(op[t].tools)
                got == snapshot'[t]
            IN  IF names = {}
                THEN got = full
                ELSE /\ DOMAIN got.functions = DOMAIN full.functions \cap names
                     /\ \A n \in DOMAIN got.functions :
                            /\ got.functions[n] = full.functions[n]
                            /\ n \in DOMAIN got.executors <=> n \in DOMAIN full.executors
                            /\ n \in DOMAIN got.executors =>
                                   got.executors[n] = full.executors[n]
                     /\ \A n \in names : AbsentName(full, n) => AbsentName(got, n)
                     /\ DOMAIN got.executors \subseteq names
                     /\ (\A n \in names : AbsentName(full, n))
                            => got = FunctionRegistry_new]_vars

\* C12 witness: a list of a built-in name, a dynamically registered name and
\* an absent name gave exactly the two present ones, with their executors
C12_Witness ==
    \E t \in Tasks :
        /\ Returned(t) /\ ret[t] = "Ok"
        /\ op[t] = CallWithTools(<<"git-status", "tool-a", "tool-x">>)
        /\ DOMAIN snapshot[t].functions = {"git-status", "tool-a"}
        /\ snapshot[t].executors = ("git-status" :> "GitFunctionExecutor")
                                      @@ ("tool-a" :> "ExecAB")

CopyKinds == {"copy_register_function", "copy_unregister_function"}

\* C13: the registry get_registry() returns (clone_registry() of the global
\* one) has the function names of its source and binds each name to the
\* executor instance the source binds it to; afterwards the copy and the
\* global registry are independent: a call that changes the global registry
\* changes no task's copy, and a call on a copy leaves the global registry
\* as it is.
C13_CopyEqualAndIndependent ==
    [][\A t \in Tasks :
         /\ (Returns(t) /\ op[t].kind = "get_registry" /\ ret'[t] = "Ok")
            => /\ DOMAIN snapshot'[t].functions = DOMAIN global_registry.reg.functions
               /\ DOMAIN snapshot'[t].executors = DOMAIN global_registry.reg.executors
               /\ \A n \in DOMAIN snapshot'[t].executors :
                      snapshot'[t].executors[n] = global_registry.reg.executors[n]
         /\ (Returns(t) /\ op[t].kind \notin ReadKinds \cup CopyKinds)
            => snapshot' = snapshot
         /\ (Returns(t) /\ op[t].kind \in CopyKinds)
            => /\ global_registry' = global_registry
               /\ \A u \in Tasks \ {t} : snapshot'[u] = snapshot[u]]_vars

\* C13 witness: a task holds a copy taken before another task's tool set
\* was registered; the global registry has the tool set, the copy has not
C13_Witness ==
    \E t, u \in Tasks :
        /\ t # u
        /\ Returned(t) /\ op[t].kind = "get_registry" /\ ret[t] = "Ok"
        /\ Returned(u) /\ op[u] = ToolSetAB /\ ret[u] = "Ok"
        /\ DOMAIN snapshot[t].functions = BuiltinNames
        /\ DOMAIN snapshot[t].executors = BuiltinNames
        /\ global_registry.some
        /\ ToolSetRegistered(ToolSetAB, global_registry.reg)

\* C14: binding an executor to a name it supports succeeds and
\* contains_function(name) is true afterwards; after the name is
\* unregistered, contains_function(name) is false.
C14_BindMakesContained ==
    /\ (/\ localCall.method = "register_executor"
        /\ localCall.name \in supported_functions(localCall.executor))
       => /\ localRet = "Ok"
          /\ Registry_contains_function(local, localCall.name)
    /\ localCall.method = "unregister_function"
       => ~Registry_contains_function(local, localCall.name)

\* the registry a dynamic call works on: the one installed, or the built-ins
\* it bootstraps first
Base(cell) == IF cell.some THEN cell.reg ELSE create_and_register_tools

SameExcept(before, after, name) ==
    /\ DOMAIN after = (DOMAIN before) \ {name}
    /\ \A m \in DOMAIN after : after[m] = before[m]

\* C15: unregister_function(name) removes the schema and the executor
\* binding of the name and nothing else, so that execute_function for the
\* name then fails as not found (after reset() there is no registry and
\* nothing changes); and once every name of a newly registered tool set has
\* been unregistered again, the registry's function names are those it had
\* before the tool set was registered.
C15_UnregisterRemovesBothOnly ==
    [][\A u \in Tasks :
         (Returns(u) /\ op[u].kind = "unregister_function" /\ solo[u])
         => /\ IF pre[u] = HoldsNone
               THEN global_registry' = HoldsNone
               ELSE /\ global_registry'.some
                    /\ SameExcept(Base(pre[u]).functions,
                                  global_registry'.reg.functions, op[u].name)
                    /\ SameExcept(Base(pre[u]).executors,
                                  global_registry'.reg.executors, op[u].name)
                    /\ \A a \in Arguments, c \in Commands :
                           Registry_execute_function(global_registry'.reg,
                                                     op[u].name, a, c)
                             = "Err:ExecutorNotFound"
            /\ \A t \in Tasks \ {u} :
                 (/\ Returned(t) /\ op[t].kind = "register_tool_set"
                  /\ ret[t] = "Ok" /\ solo[t]
                  /\ pre[t] # HoldsNone
                  /\ op[u].name \in ToolSetNames(op[t])
                  /\ pre[u].some
                  /\ DOMAIN pre[u].reg.functions
                       = DOMAIN Base(pre[t]).functions \cup {op[u].name})
                 => DOMAIN global_registry'.reg.functions
                      = DOMAIN Base(pre[t]).functions]_vars

\* C15 witness: tool set {tool-a, tool-b} was registered and both names were
\* unregistered again; the registry holds the names it held before
C15_Witness ==
    \E t, u \in Tasks :
        /\ t # u
        /\ Returned(t) /\ op[t] = ToolSetAB /\ ret[t] = "Ok" /\ solo[t]
        /\ pre[t] # HoldsNone
        /\ Returned(u) /\ op[u].kind = "unregister_function" /\ ret[u] = "Ok"
        /\ solo[u]
        /\ op[u].name \in {"tool-a", "tool-b"}
        /\ pre[u].some
        /\ DOMAIN pre[u].reg.functions
             = DOMAIN Base(pre[t]).functions \cup {op[u].name}
        /\ op[u].name \in DOMAIN pre[u].reg.executors
        /\ global_registry.some
        /\ DOMAIN global_registry.reg.functions = DOMAIN Base(pre[t]).functions
        /\ AbsentName(global_registry.reg, "tool-a")
        /\ AbsentName(global_registry.reg, "tool-b")

HardErrors == {"Err:ExecutorNotFound", "Err:UnknownFunction", "Err:ParseArguments",
               "Err:HostRequired", "Err:InvalidHost"}

\* C16: execute_function returns a hard error exactly when no executor is
\* bound to the call's name; when an executor is bound (here: one that
\* declares the name), the caller receives a FunctionResult, a failure of the
\* executor or of its command being carried in the result's error slot.
C16_HardErrorOnlyWhenUnbound ==
    localCall.method = "execute_function" =>
        /\ ~Registry_supports_function(local, localCall.name)
               => localRet = "Err:ExecutorNotFound"
        /\ (/\ Registry_supports_function(local, localCall.name)
            /\ localCall.name \in supported_functions(local.executors[localCall.name]))
               => localRet \notin HardErrors

Within(v, min, max) == ~Less(v, min) /\ ~Less(max, v)

\* v clamped to [min, max] is r
ClampedTo(v, min, max, r) ==
    /\ Within(r, min, max)
    /\ Within(v, min, max) => r = v
    /\ Less(v, min) => r = min
    /\ Less(max, v) => r = max

\* C17: no DiagnosticConfig with out-of-range sampling parameters exists: the
\* configuration a run was given (carried by Custom or resolved from a
\* preset), the sampling configuration it runs with and every timeout it
\* passes to a capability call have count in [1,10], interval in [1,5] and
\* timeout in [5,60].
C17_NoOutOfRangeConfig ==
    diag.pc # "idle" =>
        /\ DiagnosticConfig_is_valid(diag.config)
        /\ diag.depth.kind = "Custom" => DiagnosticConfig_is_valid(diag.depth.config)
        /\ Within(diag.sampling_config.count, U32(1), U32(10))
        /\ Within(diag.sampling_config.interval, U32(1), U32(5))
        /\ Within(diag.sampling_config.timeout, U64(5), U64(60))
        /\ \A t \in diag.timeouts : Within(t, U64(5), U64(60))

\* C18: SamplingConfig::new(count, interval, timeout) yields for every input,
\* 0 and the largest u32 and u64 values included, the count clamped to
\* [1,10], the interval clamped to [1,5] and the timeout clamped to [5,60].
C18_SamplingConfigClamped ==
    diag.pc # "idle" =>
        /\ ClampedTo(diag.config.sampling_count, U32(1), U32(10),
                     diag.sampling_config.count)
        /\ ClampedTo(diag.config.sampling_interval, U32(1), U32(5),
                     diag.sampling_config.interval)
        /\ ClampedTo(diag.config.timeout_seconds, U64(5), U64(60),
                     diag.sampling_config.timeout)

\* C18 witness: a run built from count 0, the largest interval and the
\* largest timeout samples with 1, 5 and 60
C18_Witness ==
    /\ diag.pc # "idle"
    /\ diag.config.sampling_count = U32(0)
    /\ diag.config.sampling_interval = U32_MAX
    /\ diag.config.timeout_seconds = U64_MAX
    /\ diag.sampling_config = SamplingConfig(U32(1), U32(5), U64(60))

\* C19: every preset resolves to its fixed DiagnosticConfig, and for every
\* depth, Custom included, should_analyze_processes, should_analyze_io and
\* should_analyze_network equal the toggles of to_config(): Basic enables
\* none of the three, Standard process analysis only, Advanced all three.
C19_DepthPredicatesAgree ==
    diag.pc # "idle" =>
        LET d == diag.depth
            on == <<should_analyze_processes(d), should_analyze_io(d),
                    should_analyze_network(d)>>
        IN  /\ on = <<diag.config.check_processes, diag.config.check_io_performance,
                      diag.config.check_network>>
            /\ d.kind = "Basic" =>
                   on = <<FALSE, FALSE, FALSE>> /\ diag.config = DiagnosticConfig_basic
            /\ d.kind = "Standard" =>
                   on = <<TRUE, FALSE, FALSE>> /\ diag.config = DiagnosticConfig_standard
            /\ d.kind = "Advanced" =>
                   on = <<TRUE, TRUE, TRUE>> /\ diag.config = DiagnosticConfig_advanced
            /\ d.kind = "Custom" => diag.config = d.config

\* C19 witness: a Standard run that executed the basic and the process
\* phase and no other, as the predicates say
C19_Witness ==
    /\ diag.depth.kind = "Standard"
    /\ diag.result = "report"
    /\ diag.ran = {"basic", "process"}
    /\ should_analyze_processes(diag.depth)
    /\ ~should_analyze_io(diag.depth)
    /\ ~should_analyze_network(diag.depth)

IssuesOf(report, type) ==
    {i \in 1..Len(report.issues_identified) :
        report.issues_identified[i].issue_type = type}

RecommendationsOf(report, title) ==
    {i \in 1..Len(report.recommendations) : report.recommendations[i] = title}

\* C20: rule evaluation is threshold-exact and independent per rule: a report
\* with CPU usage_percent above 80 has exactly one HighCpuUsage issue, of
\* severity Warning, and its recommendation; one with memory usage_percent
\* above 85 has exactly one HighMemoryUsage issue, of severity Warning, and
\* its recommendation; a metric at or below its threshold gives no issue;
\* there are no other issues.
C20_RulesThresholdExact ==
    diag.result = "report" =>
        LET r == diag.report
            cpu == IF r.usage_percent.cpu > 800 THEN 1 ELSE 0
            memory == IF r.usage_percent.memory > 850 THEN 1 ELSE 0
        IN  /\ Cardinality(IssuesOf(r, "HighCpuUsage")) = cpu
            /\ Cardinality(RecommendationsOf(r, "optimize-cpu")) = cpu
            /\ Cardinality(IssuesOf(r, "HighMemoryUsage")) = memory
            /\ Cardinality(RecommendationsOf(r, "optimize-memory")) = memory
            /\ Len(r.issues_identified) = cpu + memory
            /\ Len(r.recommendations) = cpu + memory
            /\ \A i \in 1..Len(r.issues_identified) :
                   r.issues_identified[i].severity = "Warning"

\* C20 witness: a report with CPU at 80.1 and memory at 85.1 percent carries
\* both issues
C20_Witness ==
    /\ diag.result = "report"
    /\ diag.report.usage_percent = [cpu |-> 801, memory |-> 851]
    /\ diag.report.issues_identified =
         <<SystemIssue("HighCpuUsage", "Warning"),
           SystemIssue("HighMemoryUsage", "Warning")>>

\* C21: every external command launched by a built-in executor runs under a
\* timeout, so a capability call whose command is running eventually returns,
\* even if the child process never exits.
C21_EveryCallReturns == (cmd.pc = "running") ~> (cmd.pc = "returned")

\* the characters and the sequence the path validation refuses
UnsafePath(p) ==
    \/ \E i \in 1..Len(p) : p[i] \in {"~", ";", "|", "&", "$"}
    \/ \E i \in 1..(Len(p) - 1) : p[i] = "." /\ p[i + 1] = "."

PathTakingNames == {"fs-ls", "fs-cat", "fs-find", "sys-df", "git-status", "git-diff"}

\* C22: a call of a capability that takes a path, made with a path containing
\* "..", "~", ";", "|", "&" or "$", is rejected before any command is launched.
C22_UnsafePathLaunchesNothing ==
    (/\ cmd.pc # "idle"
     /\ cmd.name \in PathTakingNames
     /\ cmd.args.path.some
     /\ UnsafePath(cmd.args.path.value))
        => cmd.launches = <<>> /\ cmd.result = "Err"

AsciiLetters ==
    {"a", "b", "c", "d", "e", "f", "g", "h", "i", "j", "k", "l", "m", "n", "o",
     "p", "q", "r", "s", "t", "u", "v", "w", "x", "y", "z"}
    \cup {"A", "B", "C", "D", "E", "F", "G", "H", "I", "J", "K", "L", "M", "N",
          "O", "P", "Q", "R", "S", "T", "U", "V", "W", "X", "Y", "Z"}

AsciiDigits == {"0", "1", "2", "3", "4", "5", "6", "7", "8", "9"}

HostAcceptable(h) ==
    /\ Len(h) >= 1
    /\ Len(h) <= 253
    /\ \A i \in 1..Len(h) : h[i] \in AsciiLetters \cup AsciiDigits \cup {".", "-"}

\* C23: net-ping called with a host launches ping on that host iff the host
\* is non-empty, at most 253 characters long and made of letters, digits,
\* "." and "-" only; any other host, those containing ; | & < > included,
\* makes the call fail without a command being launched.
C23_HostAcceptedIff ==
    (/\ cmd.pc # "idle"
     /\ cmd.name = "net-ping"
     /\ cmd.args.object
     /\ cmd.args.host.some)
        => LET h == cmd.args.host.value
           IN  /\ HostAcceptable(h) =>
                      /\ Len(cmd.launches) = 1
                      /\ cmd.launches[1].command = "ping"
                      /\ cmd.launches[1].operands = <<h>>
               /\ ~HostAcceptable(h) => cmd.launches = <<>> /\ cmd.result = "Err"
               /\ (\E i \in 1..Len(h) : h[i] \in {";", "|", "&", "<", ">"})
                      => cmd.launches = <<>> /\ cmd.result = "Err"

C23_Witness ==
    /\ cmd.pc = "returned"
    /\ cmd.name = "net-ping"
    /\ cmd.args.host.some
    /\ Len(cmd.args.host.value) = 254
    /\ cmd.launches = <<>>
    /\ cmd.result = "Err"

\* C24: wherever a platform command is looked up on the Unknown platform, the
\* command and default arguments of every metric kind are those of Linux.
C24_UnknownFallsBackToLinux ==
    (/\ cmd.pc # "idle"
     /\ cmd.name \in DiagnosisNames \cup AnalysisNames
     /\ cmd.platform = "Unknown")
        => \A ct \in CommandTypes :
               get_platform_specific_command(ct, cmd.platform)
                   = get_platform_specific_command(ct, "Linux")

\* the parsers of the registry that parse the input successfully
SuccessfulParsers(input) ==
    {i \in 1..Len(parsers) :
         /\ can_parse(parsers[i], input)
         /\ Parser_parse(parsers[i], input) \notin {"Err:InvalidFormat", "Err:EmptyInput"}}

\* C25: when the parser the registry selects fails, parse goes on to the
\* remaining parsers and returns the first successful result; it returns
\* InvalidFormat only when no registered parser can parse the input.
C25_ParseFallsBackToOtherParsers ==
    [][parsed' # parsed =>
          LET ok == SuccessfulParsers(parsed'.input)
          IN  /\ ok # {} =>
                     \E i \in ok : /\ \A j \in ok : i <= j
                                   /\ parsed'.result = Parser_parse(parsers[i], parsed'.input)
              /\ parsed'.result = "Err:InvalidFormat" => ok = {}]_vars

\* C26: in every report a run returns, executed_functions lists exactly the
\* capability calls that succeeded, in the order they were issued, and
\* successful_functions is the number of those calls.
C26_ExecutedFunctionsAreTheSucceededCalls ==
    diag.result = "report" =>
        /\ diag.report.executed_functions = diag.succeeded
        /\ diag.report.successful_functions = Len(diag.succeeded)

\* C27: executing the tool calls of a response yields one FunctionResult per
\* call, in request order and under the call's name; an error the executor
\* reports is kept in that result's error slot, and a call of an unregistered
\* function is reported differently from such an error.
C27_OneResultPerCallErrorsKept ==
    tool_run.pc = "done" =>
        /\ Len(tool_run.results) = Len(tool_run.tool_calls)
        /\ \A k \in 1..Len(tool_run.results) :
               /\ tool_run.results[k].name = tool_run.tool_calls[k].name
               /\ Executed(tool_run.tool_calls[k]) = "FunctionResult:error"
                      => tool_run.results[k].error \notin {"None", "Err:ExecutorNotFound"}
               /\ Executed(tool_run.tool_calls[k]) = "Err:ExecutorNotFound"
                      => tool_run.results[k].error = "Err:ExecutorNotFound"

\* C28: in the report of a run whose sys-uptime and sys-meminfo calls
\* succeeded on the shipped DiagnosisExecutor, a memory usage above 85% (a
\* CPU usage above 80%) shown by the executor's output is the report's
\* usage_percent and gives the report its HighMemoryUsage (HighCpuUsage)
\* issue.
C28_ExecutorMetricsReachTheRules ==
    (/\ diag.result = "report"
     /\ "basic" \in diag.ran
     /\ BoundExecutor(diag.function_registry, "sys-uptime") = "DiagnosisExecutor"
     /\ BoundExecutor(diag.function_registry, "sys-meminfo") = "DiagnosisExecutor") =>
        /\ diag.observed.memory > 850 =>
               /\ diag.report.usage_percent.memory = diag.observed.memory
               /\ \E i \in 1..Len(diag.report.issues_identified) :
                      diag.report.issues_identified[i].issue_type = "HighMemoryUsage"
        /\ diag.observed.cpu > 800 =>
               /\ diag.report.usage_percent.cpu = diag.observed.cpu
               /\ \E i \in 1..Len(diag.report.issues_identified) :
                      diag.report.issues_identified[i].issue_type = "HighCpuUsage"

\* the entry a map holds under a name ("" when it holds none)
EntryOf(m, n) == IF n \in DOMAIN m THEN <<m[n]>> ELSE <<>>

C30_ReportModeIsTheDepth ==
    diag.result = "report" => diag.report.mode = diag.depth.kind
====
